---- MODULE Spec2Model ----
(***************************************************************************)
(* Model of the nexusevents event service: the Event / EventRegistration / *)
(* EventApprovalFlow tables and the request handlers of                    *)
(* src/src/routes/events.routes.ts and src/src/routes/admin.routes.ts.     *)
(* Every handler is a small process: one step per database access, so that *)
(* concurrent requests interleave exactly where the code awaits the store. *)
(***************************************************************************)
EXTENDS Integers, FiniteSets, Sequences, TLC

VARIABLES events, flows, registrations, policies, auditLog, now, flowStoreUp,
          auditStoreUp, provider, pc, req, resp,
          cache, redis, scopeCache, clock, profile, returned

\* the CacheManager instance and its Redis server, the scope cache of the
\* profile client and its clock, and what a library call returned
aux == <<cache, redis, scopeCache, clock, profile, returned>>

vars == <<events, flows, registrations, policies, auditLog, now, flowStoreUp,
          auditStoreUp, provider, pc, req, resp, aux>>

(***************************************************************************)
(* Bounds                                                                  *)
(***************************************************************************)
NumProcs == 2
MaxEvents == 1
MaxCapacity == 2
MaxTime == 3
RaceUsers == 3
NumModerators == 1
MaxAuditLog == 2
MaxScopeLifetimes == 2

\* the request slots of a run: 1..NumProcs, or one slot per racing user
Procs == DOMAIN pc
EventIds == 1..MaxEvents
Capacities == 1..MaxCapacity
Times == 1..MaxTime
RaceProcs == 1..RaceUsers
ModProcs == 1..NumModerators

(***************************************************************************)
(* Principals.  Roles and college come from the token / profile service.   *)
(***************************************************************************)
Users == {"s1", "s2", "f1", "t1", "d1", "h1", "x1", "h2"}
None == "none"

UserRoles(u) ==
  CASE u = "s1" -> {"STUDENT"}
    [] u = "s2" -> {"STUDENT"}
    [] u = "f1" -> {"FACULTY"}
    [] u = "t1" -> {"STUDENT", "FACULTY"}
    [] u = "d1" -> {"DEPT_ADMIN"}
    [] u = "h1" -> {"HEAD_ADMIN"}
    [] u = "x1" -> {"STUDENT"}
    [] u = "h2" -> {"HEAD_ADMIN"}
    [] OTHER -> {}

UserCollege(u) == IF u \in {"x1", "h2"} THEN "c2" ELSE "c1"

\* scope.department of the profile service
UserDepartment(u) == IF u = "s2" THEN "EE" ELSE "CS"

hasRole(u, role) == role \in UserRoles(u)

\* identity.roles[0] || "UNKNOWN"
FirstRole(u) ==
  IF UserRoles(u) = {} THEN "UNKNOWN" ELSE CHOOSE r \in UserRoles(u) : TRUE

(***************************************************************************)
(* Schema                                                                  *)
(***************************************************************************)
ModerationStatus == {"PENDING_REVIEW", "APPROVED", "REJECTED"}

NoCapacity == 0

NoEvent ==
  [exists |-> FALSE, collegeId |-> None, authorId |-> None, authorRole |-> None,
   capacity |-> NoCapacity, moderationStatus |-> "PENDING_REVIEW", monitorId |-> None,
   visibleToAllDepts |-> TRUE, departments |-> {}, title |-> <<>>,
   startAt |-> 1, endAt |-> 1, mode |-> "ONSITE", location |-> "hall",
   meetingUrl |-> ""]

NoFlow ==
  [exists |-> FALSE, assignedTo |-> None, submittedAt |-> 0,
   approvedAt |-> 0, approvedBy |-> None,
   rejectedAt |-> 0, rejectedBy |-> None, rejectionReason |-> None,
   mentorAssigned |-> None,
   isEscalated |-> FALSE, escalatedAt |-> 0, escalatedTo |-> None]

Colleges == {"c1", "c2"}

\* a college without an EscalationPolicy row
NoPolicy ==
  [exists |-> FALSE, escalationDelayHours |-> 0, backupApprovers |-> <<>>,
   autoEscalateToHead |-> FALSE]

NoReq ==
  [op |-> None, user |-> None, event |-> 0, capacity |-> NoCapacity,
   counted |-> FALSE, doomed |-> FALSE, inserted |-> FALSE,
   action |-> None, mentorId |-> None, hadFlow |-> FALSE, eventIds |-> {},
   escalatedTo |-> None, authorization |-> TRUE, evVisibleToAllDepts |-> TRUE,
   fresh |-> "null", calledAt |-> 0, tokenRoles |-> {}, collegeKnown |-> TRUE]

\* a CacheManager after construction: no client, connect() not yet called
NoClient ==
  [client |-> FALSE, isConnected |-> FALSE, connectionAttempted |-> FALSE,
   listening |-> FALSE]

\* JavaScript null
Null == "null"

\* the Redis server: reachable or not, REDIS_DISABLED, and the JSON text
\* stored under the cache key (held tells whether there is one)
RedisEmpty == [up |-> TRUE, disabled |-> FALSE, held |-> FALSE, json |-> <<>>]

\* no entry of scopeCache
NoScope == [exists |-> FALSE, collegeId |-> "", department |-> "", expiresAt |-> 0]

\* what a call returned: nothing yet, a value, a scope, or a thrown error
NoReturn == [kind |-> "none", value |-> Null, collegeId |-> "", department |-> ""]

Value(v) == [NoReturn EXCEPT !.kind = "value", !.value = v]

Thrown == [NoReturn EXCEPT !.kind = "thrown"]

\* what GET /v1/profile/me of the profile service answers: the fetch
\* fails, a non-OK status, or a profile (a missing field is written "")
ProfileOk == [status |-> "ok", collegeId |-> "c1", department |-> "CS"]

\* the cache and the profile client untouched since the process started
AuxIdle ==
  /\ cache = NoClient
  /\ redis = RedisEmpty
  /\ scopeCache = [u \in Users |-> NoScope]
  /\ clock = 0
  /\ profile = ProfileOk
  /\ returned = [p \in 1..NumProcs |-> NoReturn]

\* The JSON body of a create or update request: given holds the keys that
\* are present, the other fields carry a fixed filler.  An absent or null
\* string column is written "".
BodyKeys ==
  {"startAt", "endAt", "mode", "location", "meetingUrl", "capacity",
   "visibleToAllDepts", "departments"}

NoBody ==
  [given |-> {}, startAt |-> 1, endAt |-> 1, mode |-> "ONSITE", location |-> "",
   meetingUrl |-> "", capacity |-> NoCapacity, visibleToAllDepts |-> TRUE,
   departments |-> {}]

Has(body, key) == key \in body.given

\* createEventSchema: startAt and mode are required, visibleToAllDepts
\* defaults to true and departments to []
createEventSchemaAccepts(body) == {"startAt", "mode"} \subseteq body.given

createEventSchemaParse(body) ==
  [body EXCEPT !.visibleToAllDepts = IF Has(body, "visibleToAllDepts") THEN @ ELSE TRUE,
               !.departments = IF Has(body, "departments") THEN @ ELSE {},
               !.given = @ \cup {"visibleToAllDepts", "departments"}]

\* a body that passes every check of POST /v1/events, with the capacity
\* given or left out
CapacityBody(cap) ==
  [NoBody EXCEPT !.given = {"startAt", "mode", "location"}
                            \cup (IF cap = NoCapacity THEN {} ELSE {"capacity"}),
                 !.location = "hall", !.capacity = cap]

\* the lookup by id alone: the collegeId filter is left out
findFirstAnyCollege(id, collegeId) ==
  IF id \in EventIds /\ events[id].exists THEN events[id] ELSE NoEvent

\* prisma.event.findFirst({ where: { id, collegeId: scope.collegeId } })
findFirst(id, collegeId) ==
  IF id \in EventIds /\ events[id].exists /\ events[id].collegeId = collegeId
  THEN events[id] ELSE NoEvent

\* tx.eventRegistration.count({ where: { eventId } })
regCount(e) ==
  LET RECURSIVE Sum(_)
      Sum(S) == IF S = {} THEN 0
                ELSE LET u == CHOOSE x \in S : TRUE
                     IN registrations[e][u] + Sum(S \ {u})
  IN Sum(Users)

\* the capacity test of the register transaction
CapacityReached(count, capacity) == count >= capacity

\* the unique index dropped from the schema
NoUniqueViolation(e, u) == FALSE

\* the unique index EventRegistration_unique_event_user (Prisma error P2002)
UniqueViolation(e, u) == registrations[e][u] > 0

\* the transaction run at the default isolation level: nothing is refused
NoSerializationConflict(p, q) == FALSE

\* Two Serializable register transactions on one event that both counted and
\* both insert form a read-write dependency cycle: when p commits, q can no
\* longer commit and fails with a serialization error.
SerializationConflict(p, q) ==
  /\ q # p
  /\ pc[q] \in {"reg_create", "reg_commit"}
  /\ req[p].counted /\ req[q].counted
  /\ req[q].event = req[p].event

\* the foreign key EventRegistration_event_fk: a registration row cannot be
\* inserted for an event that is not there (Prisma error P2003)
ForeignKeyViolation(e) == ~events[e].exists

\* a request arrives on a free slot: requireAuth and getUserScope have
\* resolved the caller, the route parameters are parsed
Accept(p, first, r) ==
  /\ pc[p] = "idle"
  /\ pc' = [pc EXCEPT ![p] = first]
  /\ req' = [req EXCEPT ![p] = r]
  /\ resp' = [resp EXCEPT ![p] = "NONE"]

\* a handler returns (reply.send / reply.code(..).send): the slot is free
\* again and holds the response of the request it served
Reply(p, r) ==
  /\ pc' = [pc EXCEPT ![p] = "idle"]
  /\ resp' = [resp EXCEPT ![p] = r]
  /\ req' = [req EXCEPT ![p] = NoReq]

(***************************************************************************)
(* POST /v1/events/:id/register                                            *)
(***************************************************************************)
RegisterBegin(p, u, e) ==
  /\ Accept(p, "reg_find", [NoReq EXCEPT !.op = "register", !.user = u, !.event = e])
  /\ UNCHANGED <<events, flows, registrations, now, flowStoreUp, auditLog, auditStoreUp, policies, provider, aux>>

\* register without the moderationStatus precondition
RegisterFindAnyStatus(p) ==
  /\ pc[p] = "reg_find"
  /\ LET ev == findFirst(req[p].event, UserCollege(req[p].user)) IN
       IF ~ev.exists THEN Reply(p, "NOT_FOUND")
       ELSE
         /\ pc' = [pc EXCEPT ![p] = "reg_count"]
         /\ req' = [req EXCEPT ![p].capacity = ev.capacity]
         /\ UNCHANGED resp
  /\ UNCHANGED <<events, flows, registrations, now, flowStoreUp, auditLog, auditStoreUp, policies, provider, aux>>

RegisterFind(p) ==
  /\ pc[p] = "reg_find"
  /\ LET ev == findFirst(req[p].event, UserCollege(req[p].user)) IN
       IF ~ev.exists THEN Reply(p, "NOT_FOUND")
       ELSE IF ev.moderationStatus # "APPROVED" THEN Reply(p, "INVALID_STATE")
       ELSE
         /\ pc' = [pc EXCEPT ![p] = "reg_count"]
         /\ req' = [req EXCEPT ![p].capacity = ev.capacity]
         /\ UNCHANGED resp
  /\ UNCHANGED <<events, flows, registrations, now, flowStoreUp, auditLog, auditStoreUp, policies, provider, aux>>

RegisterCount(p) ==
  /\ pc[p] = "reg_count"
  /\ IF req[p].capacity # NoCapacity THEN
       IF CapacityReached(regCount(req[p].event), req[p].capacity) THEN
         Reply(p, "FULL")
       ELSE
         /\ pc' = [pc EXCEPT ![p] = "reg_create"]
         /\ req' = [req EXCEPT ![p].counted = TRUE]
         /\ UNCHANGED resp
     ELSE
       /\ pc' = [pc EXCEPT ![p] = "reg_create"]
       /\ UNCHANGED <<req, resp>>
  /\ UNCHANGED <<events, flows, registrations, now, flowStoreUp, auditLog, auditStoreUp, policies, provider, aux>>

\* tx.eventRegistration.create: waits for an uncommitted insert of the same
\* key, then fails on a serialization conflict, on a vanished event or on
\* the unique index, or leaves an uncommitted row.
RegisterCreate(p) ==
  /\ pc[p] = "reg_create"
  /\ ~\E q \in Procs \ {p} :
        /\ pc[q] = "reg_commit" /\ req[q].inserted
        /\ req[q].event = req[p].event /\ req[q].user = req[p].user
  /\ LET e == req[p].event
         u == req[p].user
         dup == UniqueViolation(e, u)
     IN
       \/ /\ req[p].doomed
          /\ Reply(p, "INTERNAL")
       \/ /\ ForeignKeyViolation(e)
          /\ Reply(p, "INTERNAL")
       \/ /\ ~ForeignKeyViolation(e) /\ dup
          /\ Reply(p, "ALREADY")
       \/ /\ ~ForeignKeyViolation(e) /\ ~dup /\ ~req[p].doomed
          /\ pc' = [pc EXCEPT ![p] = "reg_commit"]
          /\ req' = [req EXCEPT ![p].inserted = TRUE]
          /\ UNCHANGED resp
  /\ UNCHANGED <<events, flows, registrations, now, flowStoreUp, auditLog, auditStoreUp, policies, provider, aux>>

RegisterCommit(p) ==
  /\ pc[p] = "reg_commit"
  /\ IF req[p].doomed \/ ForeignKeyViolation(req[p].event) THEN
       /\ Reply(p, "INTERNAL")
       /\ UNCHANGED registrations
     ELSE
       /\ registrations' =
            [registrations EXCEPT ![req[p].event][req[p].user] = @ + 1]
       /\ pc' = [pc EXCEPT ![p] = "idle"]
       /\ resp' = [resp EXCEPT ![p] = "CREATED"]
       /\ req' = [q \in Procs |->
                    IF q = p THEN NoReq
                    ELSE IF SerializationConflict(p, q)
                         THEN [req[q] EXCEPT !.doomed = TRUE]
                         ELSE req[q]]
  /\ UNCHANGED <<events, flows, now, flowStoreUp, auditLog, auditStoreUp, policies, provider, aux>>

(***************************************************************************)
(* DELETE /v1/events/:id/register                                          *)
(***************************************************************************)
UnregisterBegin(p, u, e) ==
  /\ Accept(p, "unreg_find", [NoReq EXCEPT !.op = "unregister", !.user = u, !.event = e])
  /\ UNCHANGED <<events, flows, registrations, now, flowStoreUp, auditLog, auditStoreUp, policies, provider, aux>>

UnregisterFind(p) ==
  /\ pc[p] = "unreg_find"
  /\ LET ev == findFirst(req[p].event, UserCollege(req[p].user)) IN
       IF ~ev.exists THEN Reply(p, "NOT_FOUND")
       ELSE /\ pc' = [pc EXCEPT ![p] = "unreg_delete"]
            /\ UNCHANGED <<req, resp>>
  /\ UNCHANGED <<events, flows, registrations, now, flowStoreUp, auditLog, auditStoreUp, policies, provider, aux>>

\* unregister written with delete instead of deleteMany: a missing row throws
UnregisterDeleteStrict(p) ==
  /\ pc[p] = "unreg_delete"
  /\ IF registrations[req[p].event][req[p].user] = 0
     THEN Reply(p, "INTERNAL") /\ UNCHANGED registrations
     ELSE /\ registrations' = [registrations EXCEPT ![req[p].event][req[p].user] = 0]
          /\ Reply(p, "OK")
  /\ UNCHANGED <<events, flows, now, flowStoreUp, auditLog, auditStoreUp, policies, provider, aux>>

\* prisma.eventRegistration.deleteMany({ where: { eventId, userId } })
UnregisterDelete(p) ==
  /\ pc[p] = "unreg_delete"
  /\ registrations' = [registrations EXCEPT ![req[p].event][req[p].user] = 0]
  /\ Reply(p, "OK")
  /\ UNCHANGED <<events, flows, now, flowStoreUp, auditLog, auditStoreUp, policies, provider, aux>>

(***************************************************************************)
(* POST /v1/events                                                         *)
(***************************************************************************)
\* the request carries an Authorization header, or the token came another way
\* tokenRoles are the roles of the access token, UserRoles(u) those the
\* identity service returns
CreateBeginAs(p, u, authorization, tokenRoles) ==
  /\ Accept(p, "create_event",
            [NoReq EXCEPT !.op = "create", !.user = u, !.authorization = authorization,
                          !.tokenRoles = tokenRoles])
  /\ UNCHANGED <<events, flows, registrations, now, flowStoreUp, auditLog, auditStoreUp, policies, provider, aux>>

\* the user record of the auth service has no collegeId
CreateBeginNoCollege(p, u) ==
  /\ Accept(p, "create_event",
            [NoReq EXCEPT !.op = "create", !.user = u, !.tokenRoles = UserRoles(u),
                          !.collegeKnown = FALSE])
  /\ UNCHANGED <<events, flows, registrations, now, flowStoreUp, auditLog, auditStoreUp, policies, provider, aux>>

\* fetchUserIdentity: collegeId: userData.collegeId || ""
identityCollegeId(u, collegeKnown) == IF collegeKnown THEN UserCollege(u) ELSE ""

\* the token carries the roles the identity service knows
CreateBegin(p, u, authorization) == CreateBeginAs(p, u, authorization, UserRoles(u))

\* what the badge service does with the eligibility request
ProviderAnswers == {"allow", "deny", "notOk", "unreachable"}

EligibilityFailed == <<"Badge eligibility check failed">>

\* the catch block lets the student through when the check cannot be made
ensureStudentEligibilityOpen(roles, authorization, answer) ==
  IF "STUDENT" \notin roles THEN [canCreate |-> TRUE, missing |-> <<>>, fetched |-> FALSE]
  ELSE IF ~authorization THEN [canCreate |-> TRUE, missing |-> <<>>, fetched |-> FALSE]
  ELSE IF answer = "unreachable"
  THEN [canCreate |-> TRUE, missing |-> <<>>, fetched |-> TRUE]
  ELSE IF answer = "notOk"
  THEN [canCreate |-> FALSE, missing |-> EligibilityFailed, fetched |-> TRUE]
  ELSE [canCreate |-> answer = "allow",
        missing |-> IF answer = "allow" THEN <<>>
                    ELSE <<"Need 8 badges across 4 categories">>,
        fetched |-> TRUE]

\* ensureStudentEligibility: roles are those of the token payload; fetched
\* tells whether the provider was called
ensureStudentEligibility(roles, authorization, answer) ==
  IF "STUDENT" \notin roles THEN [canCreate |-> TRUE, missing |-> <<>>, fetched |-> FALSE]
  ELSE IF ~authorization
  THEN [canCreate |-> FALSE, missing |-> EligibilityFailed, fetched |-> FALSE]
  ELSE IF answer \in {"unreachable", "notOk"}
  THEN [canCreate |-> FALSE, missing |-> EligibilityFailed, fetched |-> TRUE]
  ELSE [canCreate |-> answer = "allow",
        missing |-> IF answer = "allow" THEN <<>>
                    ELSE <<"Need 8 badges across 4 categories">>,
        fetched |-> TRUE]

\* the flow is created for every author
isStudentAlways(u) == TRUE

\* const isStudent = identity.roles.includes("STUDENT")
isStudent(u) == hasRole(u, "STUDENT")

\* the id the store gives the next event
FreeIds == {e \in EventIds : ~events[e].exists}

\* departments: body.visibleToAllDepts ? [] : (body.departments || [])
createDepartments(body) == IF body.visibleToAllDepts THEN {} ELSE body.departments

\* the 400 replies of POST /v1/events: endAt before startAt, a missing
\* meetingUrl for ONLINE/HYBRID, a missing location for ONSITE/HYBRID
createRejects(body) ==
  \/ Has(body, "endAt") /\ body.endAt < body.startAt
  \/ body.mode # "ONSITE" /\ ~(Has(body, "meetingUrl") /\ body.meetingUrl # "")
  \/ body.mode # "ONLINE" /\ ~(Has(body, "location") /\ body.location # "")

\* getUserIdentity, createEventSchema.parse, the date and mode checks,
\* ensureStudentEligibility, prisma.event.create
CreateEvent(p, given) ==
  /\ pc[p] = "create_event"
  /\ LET u == req[p].user
         body == createEventSchemaParse(given)
         cap == IF Has(body, "capacity") THEN body.capacity ELSE NoCapacity
     IN
       \/ \* the identity service does not know the caller
          /\ Reply(p, "NOT_FOUND")
          /\ UNCHANGED events
       \/ \* the schema or the date and mode checks reject the body
          /\ ~createEventSchemaAccepts(given) \/ createRejects(body)
          /\ Reply(p, "BAD_REQUEST")
          /\ UNCHANGED events
       \/ \* the eligibility check of a student says no
          /\ createEventSchemaAccepts(given) /\ ~createRejects(body)
          /\ isStudent(u)
          /\ ~ensureStudentEligibility(req[p].tokenRoles, req[p].authorization, provider).canCreate
          /\ Reply(p, "FORBIDDEN")
          /\ UNCHANGED events
       \/ /\ createEventSchemaAccepts(given) /\ ~createRejects(body)
          /\ isStudent(u)
               => ensureStudentEligibility(req[p].tokenRoles, req[p].authorization, provider).canCreate
          /\ FreeIds # {}
          /\ LET id == CHOOSE e \in FreeIds : \A f \in FreeIds : e <= f IN
               /\ events' = [events EXCEPT ![id] =
                    [NoEvent EXCEPT
                       !.exists = TRUE,
                       !.collegeId = identityCollegeId(u, req[p].collegeKnown),
                       !.authorId = u,
                       !.authorRole = IF isStudent(u) THEN "STUDENT" ELSE FirstRole(u),
                       !.capacity = cap,
                       !.startAt = body.startAt,
                       !.endAt = IF Has(body, "endAt") THEN body.endAt ELSE body.startAt,
                       !.mode = body.mode,
                       !.location = IF Has(body, "location") THEN body.location ELSE "",
                       !.meetingUrl = IF Has(body, "meetingUrl") THEN body.meetingUrl ELSE "",
                       !.visibleToAllDepts = body.visibleToAllDepts,
                       !.departments = createDepartments(body),
                       !.moderationStatus =
                          IF isStudent(u) THEN "PENDING_REVIEW" ELSE "APPROVED"]]
               /\ IF isStudent(u)
                  THEN /\ pc' = [pc EXCEPT ![p] = "create_flow"]
                       /\ req' = [req EXCEPT ![p].event = id]
                       /\ UNCHANGED resp
                  ELSE Reply(p, "OK")
  /\ UNCHANGED <<flows, registrations, now, flowStoreUp, auditLog, auditStoreUp, policies, provider, aux>>

\* createApprovalFlow: the department admin found (or not) becomes the
\* assignee; a failed write is logged and swallowed
CreateFlow(p) ==
  /\ pc[p] = "create_flow"
  /\ IF flowStoreUp /\ events[req[p].event].exists /\ ~flows[req[p].event].exists
     THEN \E deptAdmin \in {None, "d1"} :
            flows' = [flows EXCEPT ![req[p].event] =
                        [NoFlow EXCEPT !.exists = TRUE, !.assignedTo = deptAdmin,
                                       !.submittedAt = now]]
     ELSE UNCHANGED flows
  /\ Reply(p, "OK")
  /\ UNCHANGED <<events, registrations, now, flowStoreUp, auditLog, auditStoreUp, policies, provider, aux>>

\* the approval-flow table becomes unavailable, or available again
FlowStoreFault ==
  /\ flowStoreUp' = ~flowStoreUp
  /\ UNCHANGED <<events, flows, registrations, now, auditLog, auditStoreUp, policies, provider, aux, pc, req, resp>>

(***************************************************************************)
(* PATCH /v1/events/:id/moderate                                           *)
(***************************************************************************)
\* requireRole(payload, roles): the caller holds one of the roles
requireRole(u, roles) == UserRoles(u) \cap roles # {}

\* a field given as undefined is left as it is by prisma's update
Given(new, old) == IF new = None THEN old ELSE new

ModerateBegin(p, u, e) ==
  /\ Accept(p, "mod_find", [NoReq EXCEPT !.op = "moderate", !.user = u, !.event = e])
  /\ UNCHANGED <<events, flows, registrations, now, flowStoreUp, auditLog, auditStoreUp, policies, provider, aux>>

\* requireRole, moderateSchema.parse, findFirst
ModerateFind(p, action, mentorId) ==
  /\ pc[p] = "mod_find"
  /\ action \in {"APPROVE", "REJECT", "ASSIGN"}
  /\ action # "APPROVE" => mentorId = None
  /\ IF ~requireRole(req[p].user, {"DEPT_ADMIN", "HEAD_ADMIN"}) THEN Reply(p, "FORBIDDEN")
     ELSE IF ~findFirst(req[p].event, UserCollege(req[p].user)).exists
     THEN Reply(p, "NOT_FOUND")
     ELSE /\ pc' = [pc EXCEPT ![p] = IF action = "ASSIGN" THEN "mod_flow" ELSE "mod_event"]
          /\ req' = [req EXCEPT ![p].action = action, ![p].mentorId = mentorId]
          /\ UNCHANGED resp
  /\ UNCHANGED <<events, flows, registrations, now, flowStoreUp, auditLog, auditStoreUp, policies, provider, aux>>

\* prisma.event.update of APPROVE and of REJECT
ModerateEvent(p) ==
  /\ pc[p] = "mod_event"
  /\ LET e == req[p].event IN
       IF ~events[e].exists
       THEN Reply(p, "INTERNAL") /\ UNCHANGED events
       ELSE /\ events' = [events EXCEPT ![e] =
                 IF req[p].action = "APPROVE"
                 THEN [@ EXCEPT !.moderationStatus = "APPROVED",
                                !.monitorId = Given(req[p].mentorId, @)]
                 ELSE [@ EXCEPT !.moderationStatus = "REJECTED"]]
            /\ pc' = [pc EXCEPT ![p] = "mod_flow"]
            /\ UNCHANGED <<req, resp>>
  /\ UNCHANGED <<flows, registrations, now, flowStoreUp, auditLog, auditStoreUp, policies, provider, aux>>

\* the flow update without try / catch: a missing flow or a failed write
\* fails the request
ModerateFlowStrict(p, rejectionReason, monitorId) ==
  /\ pc[p] = "mod_flow"
  /\ req[p].action # "REJECT" => rejectionReason = None
  /\ req[p].action # "ASSIGN" => monitorId = None
  /\ LET e == req[p].event
         u == req[p].user
     IN IF flows[e].exists /\ flowStoreUp
        THEN /\ Reply(p, "OK")
             /\ flows' = [flows EXCEPT ![e] =
               CASE req[p].action = "APPROVE" ->
                      [@ EXCEPT !.approvedAt = now, !.approvedBy = u,
                                !.mentorAssigned = Given(req[p].mentorId, @)]
                 [] req[p].action = "REJECT" ->
                      [@ EXCEPT !.rejectedAt = now, !.rejectedBy = u,
                                !.rejectionReason = Given(rejectionReason, @)]
                 [] OTHER ->
                      [@ EXCEPT !.assignedTo = Given(monitorId, @)]]
        ELSE UNCHANGED flows /\ Reply(p, "INTERNAL")
  /\ UNCHANGED <<events, registrations, now, flowStoreUp, auditLog, auditStoreUp, policies, provider, aux>>

\* prisma.eventApprovalFlow.update inside try / catch: a missing flow or a
\* failed write is logged and swallowed
ModerateFlow(p, rejectionReason, monitorId) ==
  /\ pc[p] = "mod_flow"
  /\ req[p].action # "REJECT" => rejectionReason = None
  /\ req[p].action # "ASSIGN" => monitorId = None
  /\ LET e == req[p].event
         u == req[p].user
     IN IF flows[e].exists /\ flowStoreUp
        THEN flows' = [flows EXCEPT ![e] =
               CASE req[p].action = "APPROVE" ->
                      [@ EXCEPT !.approvedAt = now, !.approvedBy = u,
                                !.mentorAssigned = Given(req[p].mentorId, @)]
                 [] req[p].action = "REJECT" ->
                      [@ EXCEPT !.rejectedAt = now, !.rejectedBy = u,
                                !.rejectionReason = Given(rejectionReason, @)]
                 [] OTHER ->
                      [@ EXCEPT !.assignedTo = Given(monitorId, @)]]
        ELSE UNCHANGED flows
  /\ Reply(p, "OK")
  /\ UNCHANGED <<events, registrations, now, flowStoreUp, auditLog, auditStoreUp, policies, provider, aux>>

(***************************************************************************)
(* PATCH /v1/admin/events/:id/moderate                                     *)
(***************************************************************************)
requireHeadAdmin(u) == hasRole(u, "HEAD_ADMIN")

\* the audited requests in flight; the log is modelled up to MaxAuditLog
\* entries, and a request that would write one more is not taken
AuditRoom ==
  auditLog + Cardinality({q \in Procs : req[q].op \in {"adminModerate", "bulkModerate"}})
    < MaxAuditLog

\* AuditLogger.log rethrows what prisma.adminAuditLog.create throws
logRethrows(storeUp) == ~storeUp

\* AuditLogger.log catches every error of the write: it never throws
logThrows(storeUp) == FALSE

\* AuditLogger.log called at the end of an admin handler, inside the
\* handler's try: the entry is appended if the audit store takes it
AuditLoggerLog(p) ==
  /\ auditLog' = IF auditStoreUp THEN auditLog + 1 ELSE auditLog
  /\ IF logThrows(auditStoreUp) THEN Reply(p, "INTERNAL") ELSE Reply(p, "OK")

canAccessCollege(u, collegeId) == UserCollege(u) = collegeId

AdminModerateBegin(p, u, e) ==
  /\ AuditRoom
  /\ Accept(p, "adm_find", [NoReq EXCEPT !.op = "adminModerate", !.user = u, !.event = e])
  /\ UNCHANGED <<events, flows, registrations, now, flowStoreUp, auditLog, auditStoreUp, policies, provider, aux>>

\* requireHeadAdmin, moderateEventSchema.parse, findUnique with the flow
AdminModerateFind(p, action, mentorId) ==
  /\ pc[p] = "adm_find"
  /\ action \in {"APPROVE", "REJECT", "ASSIGN_MENTOR", "ESCALATE"}
  /\ action \notin {"APPROVE", "ASSIGN_MENTOR"} => mentorId = None
  /\ LET e == req[p].event IN
       IF ~requireHeadAdmin(req[p].user) THEN Reply(p, "FORBIDDEN")
       ELSE IF ~(e \in EventIds /\ events[e].exists) THEN Reply(p, "NOT_FOUND")
       ELSE IF ~canAccessCollege(req[p].user, events[e].collegeId)
       THEN Reply(p, "FORBIDDEN")
       ELSE /\ pc' = [pc EXCEPT ![p] = "adm_event"]
            /\ req' = [req EXCEPT ![p].action = action, ![p].mentorId = mentorId,
                                  ![p].hadFlow = flows[e].exists]
            /\ UNCHANGED resp
  /\ UNCHANGED <<events, flows, registrations, now, flowStoreUp, auditLog, auditStoreUp, policies, provider, aux>>

\* flowUpdateData has keys
FlowUpdateGiven(action, mentorId) ==
  \/ action \in {"APPROVE", "REJECT"}
  \/ action = "ASSIGN_MENTOR" /\ mentorId # None

\* updateData of the action switch, the moderationStatus override, and
\* prisma.event.update
AdminModerateEvent(p, moderationStatus) ==
  /\ pc[p] = "adm_event"
  /\ moderationStatus \in ModerationStatus \cup {None}
  /\ LET e == req[p].event
         a == req[p].action
         byAction == CASE a = "APPROVE" -> "APPROVED"
                       [] a = "REJECT" -> "REJECTED"
                       [] OTHER -> None
     IN IF ~events[e].exists
        THEN Reply(p, "INTERNAL") /\ UNCHANGED events
        ELSE /\ events' = [events EXCEPT ![e] =
                  [@ EXCEPT
                     !.moderationStatus = Given(Given(moderationStatus, byAction), @),
                     !.monitorId = IF a \in {"APPROVE", "ASSIGN_MENTOR"}
                                   THEN Given(req[p].mentorId, @) ELSE @]]
             /\ pc' = [pc EXCEPT ![p] =
                  IF req[p].hadFlow /\ FlowUpdateGiven(a, req[p].mentorId)
                  THEN "adm_flow" ELSE "adm_audit"]
             /\ UNCHANGED <<req, resp>>
  /\ UNCHANGED <<flows, registrations, now, flowStoreUp, auditLog, auditStoreUp, policies, provider, aux>>

\* prisma.eventApprovalFlow.update: a failure reaches the handler's catch
AdminModerateFlow(p, reason) ==
  /\ pc[p] = "adm_flow"
  /\ req[p].action # "REJECT" => reason = None
  /\ LET e == req[p].event
         u == req[p].user
     IN IF flows[e].exists /\ flowStoreUp
        THEN /\ flows' = [flows EXCEPT ![e] =
                  CASE req[p].action = "APPROVE" ->
                         [@ EXCEPT !.approvedAt = now, !.approvedBy = u,
                                   !.mentorAssigned = Given(req[p].mentorId, @)]
                    [] req[p].action = "REJECT" ->
                         [@ EXCEPT !.rejectedAt = now, !.rejectedBy = u,
                                   !.rejectionReason = Given(reason, @)]
                    [] OTHER ->
                         [@ EXCEPT !.mentorAssigned = Given(req[p].mentorId, @)]]
             /\ pc' = [pc EXCEPT ![p] = "adm_audit"]
             /\ UNCHANGED <<req, resp>>
        ELSE /\ UNCHANGED flows
             /\ Reply(p, "INTERNAL")
  /\ UNCHANGED <<events, registrations, now, flowStoreUp, auditLog, auditStoreUp, policies, provider, aux>>

\* AuditLogger.logEventModeration, then reply.send({ success: true })
AdminModerateAudit(p) ==
  /\ pc[p] = "adm_audit"
  /\ AuditLoggerLog(p)
  /\ UNCHANGED <<events, flows, registrations, now, flowStoreUp, auditStoreUp, policies, provider, aux>>

(***************************************************************************)
(* PATCH /v1/admin/events/bulk-moderate                                    *)
(***************************************************************************)
BulkModerateBegin(p, u) ==
  /\ AuditRoom
  /\ Accept(p, "bulk_find", [NoReq EXCEPT !.op = "bulkModerate", !.user = u])
  /\ UNCHANGED <<events, flows, registrations, now, flowStoreUp, auditLog, auditStoreUp, policies, provider, aux>>

\* requireHeadAdmin, bulkModerationSchema.parse, findMany, access check
BulkModerateFind(p, eventIds, action) ==
  /\ pc[p] = "bulk_find"
  /\ eventIds # {}
  /\ action \in {"APPROVE", "REJECT", "ARCHIVE"}
  /\ LET found == {e \in eventIds : events[e].exists} IN
       IF ~requireHeadAdmin(req[p].user) THEN Reply(p, "FORBIDDEN")
       ELSE IF found = {} THEN Reply(p, "NOT_FOUND")
       ELSE IF \E e \in found : ~canAccessCollege(req[p].user, events[e].collegeId)
       THEN Reply(p, "FORBIDDEN")
       ELSE /\ pc' = [pc EXCEPT ![p] = "bulk_update"]
            /\ req' = [req EXCEPT ![p].action = action, ![p].eventIds = eventIds]
            /\ UNCHANGED resp
  /\ UNCHANGED <<events, flows, registrations, now, flowStoreUp, auditLog, auditStoreUp, policies, provider, aux>>

\* prisma.event.updateMany({ where: { id: { in: eventIds } } })
BulkModerateUpdate(p) ==
  /\ pc[p] = "bulk_update"
  /\ events' = [e \in EventIds |->
       IF e \in req[p].eventIds /\ events[e].exists
       THEN CASE req[p].action = "APPROVE" ->
                   [events[e] EXCEPT !.moderationStatus = "APPROVED"]
              [] req[p].action = "REJECT" ->
                   [events[e] EXCEPT !.moderationStatus = "REJECTED"]
              [] OTHER -> events[e]
       ELSE events[e]]
  /\ pc' = [pc EXCEPT ![p] = "bulk_audit"]
  /\ UNCHANGED <<req, resp>>
  /\ UNCHANGED <<flows, registrations, now, flowStoreUp, auditLog, auditStoreUp, policies, provider, aux>>

\* AuditLogger.logBulkOperation, then reply.send({ success: true })
BulkModerateAudit(p) ==
  /\ pc[p] = "bulk_audit"
  /\ AuditLoggerLog(p)
  /\ UNCHANGED <<events, flows, registrations, now, flowStoreUp, auditStoreUp, policies, provider, aux>>

(***************************************************************************)
(* GET /v1/admin/events/:id                                                *)
(***************************************************************************)
AdminGetBegin(p, u, e) ==
  /\ Accept(p, "admget_find", [NoReq EXCEPT !.op = "adminGet", !.user = u, !.event = e])
  /\ UNCHANGED <<events, flows, registrations, now, flowStoreUp, auditLog, auditStoreUp, policies, provider, aux>>

\* requireHeadAdmin, findUnique, canAccessCollege
AdminGetFind(p) ==
  /\ pc[p] = "admget_find"
  /\ LET e == req[p].event IN
       IF ~requireHeadAdmin(req[p].user) THEN Reply(p, "FORBIDDEN")
       ELSE IF ~(e \in EventIds /\ events[e].exists) THEN Reply(p, "NOT_FOUND")
       ELSE IF ~canAccessCollege(req[p].user, events[e].collegeId)
       THEN Reply(p, "FORBIDDEN")
       ELSE Reply(p, "OK")
  /\ UNCHANGED <<events, flows, registrations, now, flowStoreUp, auditLog, auditStoreUp, policies, provider, aux>>

(***************************************************************************)
(* PUT /v1/events/:id                                                      *)
(***************************************************************************)
UpdateBegin(p, u, e) ==
  /\ Accept(p, "upd_find", [NoReq EXCEPT !.op = "update", !.user = u, !.event = e])
  /\ UNCHANGED <<events, flows, registrations, now, flowStoreUp, auditLog, auditStoreUp, policies, provider, aux>>

\* any authenticated caller counts as privileged
isAuthenticated(u) == UserRoles(u) # {}

isPrivileged(u) ==
  hasRole(u, "FACULTY") \/ hasRole(u, "DEPT_ADMIN") \/ hasRole(u, "HEAD_ADMIN")

\* findFirst and the ownership / role check
UpdateFind(p) ==
  /\ pc[p] = "upd_find"
  /\ LET u == req[p].user
         ev == findFirst(req[p].event, UserCollege(u))
         canStudentEdit == /\ hasRole(u, "STUDENT")
                           /\ ev.authorId = u
                           /\ ev.moderationStatus = "PENDING_REVIEW"
     IN IF ~ev.exists THEN Reply(p, "NOT_FOUND")
        ELSE IF ~canStudentEdit /\ ~isPrivileged(u) THEN Reply(p, "FORBIDDEN")
        ELSE /\ pc' = [pc EXCEPT ![p] = "upd_write"]
             /\ req' = [req EXCEPT ![p].evVisibleToAllDepts = ev.visibleToAllDepts]
             /\ UNCHANGED resp
  /\ UNCHANGED <<events, flows, registrations, now, flowStoreUp, auditLog, auditStoreUp, policies, provider, aux>>

\* the 400 reply of PUT /v1/events/:id: both dates supplied and endAt
\* before startAt
updateRejects(body) ==
  Has(body, "startAt") /\ Has(body, "endAt") /\ body.endAt < body.startAt

\* updateData.departments =
\*   (updateData.visibleToAllDepts ?? ev.visibleToAllDepts) ? [] : body.departments
updateDepartments(body, evVisibleToAllDepts) ==
  IF (IF Has(body, "visibleToAllDepts") THEN body.visibleToAllDepts
      ELSE evVisibleToAllDepts)
  THEN {} ELSE body.departments

\* the body replaces the content of the row, supplied or not
updateDataReplace(body, row, evVisibleToAllDepts) ==
  [row EXCEPT
     !.startAt = body.startAt, !.endAt = body.endAt, !.mode = body.mode,
     !.location = body.location, !.meetingUrl = body.meetingUrl,
     !.capacity = body.capacity, !.visibleToAllDepts = body.visibleToAllDepts,
     !.departments = updateDepartments(body, evVisibleToAllDepts)]

\* updateData applied to the stored row: one entry for each key the body
\* supplies
updateData(body, row, evVisibleToAllDepts) ==
  [row EXCEPT
     !.startAt = IF Has(body, "startAt") THEN body.startAt ELSE @,
     !.endAt = IF Has(body, "endAt") THEN body.endAt ELSE @,
     !.mode = IF Has(body, "mode") THEN body.mode ELSE @,
     !.location = IF Has(body, "location") THEN body.location ELSE @,
     !.meetingUrl = IF Has(body, "meetingUrl") THEN body.meetingUrl ELSE @,
     !.capacity = IF Has(body, "capacity") THEN body.capacity ELSE @,
     !.visibleToAllDepts =
        IF Has(body, "visibleToAllDepts") THEN body.visibleToAllDepts ELSE @,
     !.departments =
        IF Has(body, "departments")
        THEN updateDepartments(body, evVisibleToAllDepts) ELSE @]

\* the updateData checks, then prisma.event.update with the fields the body
\* supplies; ev is the row read by findFirst
UpdateWrite(p, body) ==
  /\ pc[p] = "upd_write"
  /\ LET e == req[p].event IN
       IF updateRejects(body)
       THEN Reply(p, "BAD_REQUEST") /\ UNCHANGED events
       ELSE IF ~events[e].exists
       THEN Reply(p, "INTERNAL") /\ UNCHANGED events
       ELSE /\ events' = [events EXCEPT ![e] =
                           updateData(body, @, req[p].evVisibleToAllDepts)]
            /\ Reply(p, "OK")
  /\ UNCHANGED <<flows, registrations, now, flowStoreUp, auditLog, auditStoreUp, policies, provider, aux>>

(***************************************************************************)
(* DELETE /v1/events/:id                                                   *)
(***************************************************************************)
DeleteBegin(p, u, e) ==
  /\ Accept(p, "del_find", [NoReq EXCEPT !.op = "delete", !.user = u, !.event = e])
  /\ UNCHANGED <<events, flows, registrations, now, flowStoreUp, auditLog, auditStoreUp, policies, provider, aux>>

\* findFirst and the ownership / role check
DeleteFind(p) ==
  /\ pc[p] = "del_find"
  /\ LET u == req[p].user
         ev == findFirst(req[p].event, UserCollege(u))
         canStudentDelete == /\ hasRole(u, "STUDENT")
                             /\ ev.authorId = u
                             /\ ev.moderationStatus = "PENDING_REVIEW"
     IN IF ~ev.exists THEN Reply(p, "NOT_FOUND")
        ELSE IF ~canStudentDelete /\ ~isPrivileged(u) THEN Reply(p, "FORBIDDEN")
        ELSE /\ pc' = [pc EXCEPT ![p] = "del_write"]
             /\ UNCHANGED <<req, resp>>
  /\ UNCHANGED <<events, flows, registrations, now, flowStoreUp, auditLog, auditStoreUp, policies, provider, aux>>

\* the approval flow of a deleted event goes with it
cascadeFlow(flow) == NoFlow

\* the foreign key without ON DELETE CASCADE: the rows stay
keepRegistrations(rows) == rows

\* EventRegistration_event_fk ... ON DELETE CASCADE: the rows of the event
\* are deleted with it
cascadeRegistrations(rows) == [u \in Users |-> 0]

\* prisma.event.delete; the registrations of the event go with it.  The
\* delete waits for a register transaction that has inserted a row for the
\* event and not yet committed (the insert holds a key-share lock on it).
DeleteWrite(p) ==
  /\ pc[p] = "del_write"
  /\ ~\E q \in Procs :
        pc[q] = "reg_commit" /\ req[q].inserted /\ req[q].event = req[p].event
  /\ LET e == req[p].event IN
       IF ~events[e].exists
       THEN Reply(p, "INTERNAL") /\ UNCHANGED <<events, flows, registrations>>
       ELSE /\ events' = [events EXCEPT ![e] = NoEvent]
            /\ registrations' = [registrations EXCEPT ![e] = cascadeRegistrations(@)]
            /\ flows' = [flows EXCEPT ![e] = cascadeFlow(@)]
            /\ Reply(p, "OK")
  /\ UNCHANGED <<now, flowStoreUp, auditLog, auditStoreUp, policies, provider, aux>>

(***************************************************************************)
(* GET /v1/events/:id                                                      *)
(***************************************************************************)
GetBegin(p, u, e) ==
  /\ Accept(p, "get_find", [NoReq EXCEPT !.op = "get", !.user = u, !.event = e])
  /\ UNCHANGED <<events, flows, registrations, now, flowStoreUp, auditLog, auditStoreUp, policies, provider, aux>>

\* the department test without the status test
visibleAnyStatus(ev, u) ==
  ev.visibleToAllDepts \/ UserDepartment(u) \in ev.departments

\* const visible = ev.moderationStatus === "APPROVED" && (...)
visible(ev, u) ==
  /\ ev.moderationStatus = "APPROVED"
  /\ ev.visibleToAllDepts \/ UserDepartment(u) \in ev.departments

\* findFirst, then the visibility rule for students
GetFind(p) ==
  /\ pc[p] = "get_find"
  /\ LET u == req[p].user
         ev == findFirst(req[p].event, UserCollege(u))
     IN IF ~ev.exists THEN Reply(p, "NOT_FOUND")
        ELSE IF hasRole(u, "STUDENT") /\ ~visible(ev, u) THEN Reply(p, "NOT_FOUND")
        ELSE Reply(p, "OK")
  /\ UNCHANGED <<events, flows, registrations, now, flowStoreUp, auditLog, auditStoreUp, policies, provider, aux>>

(***************************************************************************)
(* GET /v1/events                                                          *)
(***************************************************************************)
\* a text is a sequence of characters; q absent (or empty) is the empty text
NoText == <<>>

toLower(c) == CASE c = "A" -> "a" [] c = "I" -> "i" [] OTHER -> c

lower(t) == [i \in 1..Len(t) |-> toLower(t[i])]

\* { contains: q, mode: "insensitive" }
contains(t, q) ==
  \E i \in 1..(Len(t) - Len(q) + 1) :
    SubSeq(lower(t), i, i + Len(q) - 1) = lower(q)

\* the alternatives collected in where.OR: the student's department rule,
\* then the text search, then the department filter, each appended to the
\* same list; title stands for the two text columns
whereOR(u, q, department, ev) ==
  (IF hasRole(u, "STUDENT")
   THEN {ev.visibleToAllDepts, UserDepartment(u) \in ev.departments} ELSE {})
  \cup (IF q # NoText THEN {contains(ev.title, q)} ELSE {})
  \cup (IF department # None
        THEN {ev.visibleToAllDepts, department \in ev.departments} ELSE {})

\* the where clause of findMany: its keys are conjoined, and a row passes
\* the OR key if one alternative holds
where(u, q, department, status, ev) ==
  /\ ev.collegeId = UserCollege(u)
  /\ IF hasRole(u, "STUDENT") THEN ev.moderationStatus = "APPROVED"
     ELSE status # None => ev.moderationStatus = status
  /\ LET alternatives == whereOR(u, q, department, ev)
     IN alternatives # {} => TRUE \in alternatives

ListBegin(p, u) ==
  /\ Accept(p, "list_find", [NoReq EXCEPT !.op = "list", !.user = u])
  /\ UNCHANGED <<events, flows, registrations, now, flowStoreUp, auditLog, auditStoreUp, policies, provider, aux>>

\* listQuerySchema.parse, prisma.event.findMany({ where })
ListFind(p, q, department, status) ==
  /\ pc[p] = "list_find"
  /\ pc' = [pc EXCEPT ![p] = "list_regs"]
  /\ req' = [req EXCEPT ![p].eventIds =
       {e \in EventIds :
          events[e].exists /\ where(req[p].user, q, department, status, events[e])}]
  /\ UNCHANGED resp
  /\ UNCHANGED <<events, flows, registrations, now, flowStoreUp, auditLog, auditStoreUp, policies, provider, aux>>

\* eventRegistration.findMany for isRegistered, reply.send({ events })
ListRegs(p) ==
  /\ pc[p] = "list_regs"
  /\ Reply(p, "OK")
  /\ UNCHANGED <<events, flows, registrations, now, flowStoreUp, auditLog, auditStoreUp, policies, provider, aux>>

(***************************************************************************)
(* GET /v1/events/:id/export                                               *)
(***************************************************************************)
ExportBegin(p, u, e) ==
  /\ Accept(p, "export_find", [NoReq EXCEPT !.op = "export", !.user = u, !.event = e])
  /\ UNCHANGED <<events, flows, registrations, now, flowStoreUp, auditLog, auditStoreUp, policies, provider, aux>>

\* requireRole(payload, ["FACULTY"]), findFirst
ExportFind(p) ==
  /\ pc[p] = "export_find"
  /\ IF ~requireRole(req[p].user, {"FACULTY"}) THEN Reply(p, "FORBIDDEN")
     ELSE IF ~findFirst(req[p].event, UserCollege(req[p].user)).exists
     THEN Reply(p, "NOT_FOUND")
     ELSE Reply(p, "OK")
  /\ UNCHANGED <<events, flows, registrations, now, flowStoreUp, auditLog, auditStoreUp, policies, provider, aux>>

(***************************************************************************)
(* checkEscalation / escalateEvent                                         *)
(***************************************************************************)
DefaultEscalationDelay == 72

\* policy?.escalationDelayHours || 72
escalationHours(policy) ==
  IF policy.exists /\ policy.escalationDelayHours # 0
  THEN policy.escalationDelayHours ELSE DefaultEscalationDelay

\* the deadline is not looked at
escalationDueAlways(flow, policy) == TRUE

\* new Date() >= escalationTime
escalationDue(flow, policy) == now >= flow.submittedAt + escalationHours(policy)

\* findHeadAdmin: the lookup in the auth service is not implemented
findHeadAdmin(collegeId) == None

\* the head admin is asked first, the backup approvers after
escalationTargetHeadFirst(policy, collegeId) ==
  IF policy.exists /\ policy.autoEscalateToHead /\ findHeadAdmin(collegeId) # None
  THEN findHeadAdmin(collegeId)
  ELSE IF policy.exists /\ Len(policy.backupApprovers) > 0
  THEN policy.backupApprovers[Len(policy.backupApprovers)] ELSE None

\* escalateEvent: escalatedTo is policy.backupApprovers[0] if there is one,
\* else the head admin when policy.autoEscalateToHead
escalationTarget(policy, collegeId) ==
  LET backup == IF policy.exists /\ Len(policy.backupApprovers) > 0
                THEN policy.backupApprovers[1] ELSE None
  IN IF backup = None /\ policy.exists /\ policy.autoEscalateToHead
     THEN findHeadAdmin(collegeId) ELSE backup

\* a sweep looks at the flow of event e
EscalationBegin(p, e) ==
  /\ Accept(p, "esc_check", [NoReq EXCEPT !.op = "escalate", !.event = e])
  /\ UNCHANGED <<events, flows, registrations, now, flowStoreUp, auditLog, auditStoreUp, policies, provider, aux>>

\* checkEscalation: findUnique of the flow, the already-processed test, the
\* policy of the college and the deadline
CheckEscalation(p) ==
  /\ pc[p] = "esc_check"
  /\ LET e == req[p].event
         flow == flows[e]
     IN IF \/ ~flow.exists \/ flow.isEscalated
           \/ flow.approvedAt # 0 \/ flow.rejectedAt # 0
        THEN Reply(p, "DONE")
        ELSE IF escalationDue(flow, policies[events[e].collegeId])
        THEN /\ pc' = [pc EXCEPT ![p] = "esc_find"]
             /\ UNCHANGED <<req, resp>>
        ELSE Reply(p, "DONE")
  /\ UNCHANGED <<events, flows, registrations, now, flowStoreUp, auditLog, auditStoreUp, policies, provider, aux>>

\* escalateEvent: findUnique of the flow again, then the choice of the
\* target: the first backup approver, else the head admin if the policy
\* says so
EscalateFind(p) ==
  /\ pc[p] = "esc_find"
  /\ LET e == req[p].event
         escalatedTo == escalationTarget(policies[events[e].collegeId], events[e].collegeId)
     IN IF ~flows[e].exists \/ escalatedTo = None
        THEN Reply(p, "DONE")
        ELSE /\ pc' = [pc EXCEPT ![p] = "esc_update"]
             /\ req' = [req EXCEPT ![p].escalatedTo = escalatedTo]
             /\ UNCHANGED resp
  /\ UNCHANGED <<events, flows, registrations, now, flowStoreUp, auditLog, auditStoreUp, policies, provider, aux>>

\* escalateEvent: eventApprovalFlow.update; an error is caught and logged
EscalateUpdate(p) ==
  /\ pc[p] = "esc_update"
  /\ LET e == req[p].event IN
       IF flows[e].exists /\ flowStoreUp
       THEN flows' = [flows EXCEPT ![e] =
              [@ EXCEPT !.isEscalated = TRUE, !.escalatedAt = now,
                        !.escalatedTo = req[p].escalatedTo,
                        !.assignedTo = req[p].escalatedTo]]
       ELSE UNCHANGED flows
  /\ Reply(p, "DONE")
  /\ UNCHANGED <<events, registrations, now, flowStoreUp, auditLog, auditStoreUp, policies, provider, aux>>

(***************************************************************************)
(* CacheManager                                                            *)
(***************************************************************************)
\* the rows untouched by the cache and the profile client
Database ==
  <<events, flows, registrations, now, flowStoreUp, auditLog, auditStoreUp,
    policies, provider>>

\* what fetchFn returns and what is cached
CacheValues == {"a", Null}

\* JSON.stringify and JSON.parse of a cached value
stringify(v) == IF v = Null THEN <<"n", "u", "l", "l">> ELSE <<"\"", v, "\"">>

parse(text) == IF text = <<"n", "u", "l", "l">> THEN Null ELSE text[2]

\* !this.client || !this.isConnected
unavailable(c) == ~c.client \/ ~c.isConnected

\* connect(): once only; skipped when REDIS_DISABLED; createClient with the
\* 'error' and 'connect' listeners, then client.connect(), whose failure is
\* caught and drops the client
CacheConnect ==
  /\ ~(cache.isConnected \/ cache.connectionAttempted)
  /\ cache' =
       IF redis.disabled THEN [cache EXCEPT !.connectionAttempted = TRUE]
       ELSE IF redis.up
       THEN [client |-> TRUE, isConnected |-> TRUE, connectionAttempted |-> TRUE,
             listening |-> TRUE]
       ELSE [client |-> FALSE, isConnected |-> FALSE, connectionAttempted |-> TRUE,
             listening |-> TRUE]
  /\ UNCHANGED <<Database, redis, scopeCache, clock, profile, returned, pc, req, resp>>

\* disconnect()
CacheDisconnect ==
  /\ cache.client /\ cache.isConnected
  /\ cache' = [cache EXCEPT !.isConnected = FALSE]
  /\ UNCHANGED <<Database, redis, scopeCache, clock, profile, returned, pc, req, resp>>

\* the 'error' listener: the server is gone
RedisErrorEvent ==
  /\ cache.listening /\ ~redis.up /\ cache.isConnected
  /\ cache' = [cache EXCEPT !.isConnected = FALSE]
  /\ UNCHANGED <<Database, redis, scopeCache, clock, profile, returned, pc, req, resp>>

\* the 'connect' listener: the socket of the created client (re)connects
RedisConnectEvent ==
  /\ cache.listening /\ redis.up /\ ~cache.isConnected
  /\ cache' = [cache EXCEPT !.isConnected = TRUE]
  /\ UNCHANGED <<Database, redis, scopeCache, clock, profile, returned, pc, req, resp>>

\* the Redis server goes away or comes back
RedisFault ==
  /\ redis' = [redis EXCEPT !.up = ~@]
  /\ UNCHANGED <<Database, cache, scopeCache, clock, profile, returned, pc, req, resp>>

\* the TTL given to setEx runs out
RedisExpire ==
  /\ redis.held
  /\ redis' = [redis EXCEPT !.held = FALSE, !.json = <<>>]
  /\ UNCHANGED <<Database, cache, scopeCache, clock, profile, returned, pc, req, resp>>

\* get without the try/catch around client.get
cacheGetNoCatch(c, r) ==
  IF unavailable(c) THEN Value(Null)
  ELSE IF ~r.up THEN Thrown
  ELSE IF r.held THEN Value(parse(r.json)) ELSE Value(Null)

\* get(key): null when unavailable, on an error of client.get, and when
\* nothing is stored; else the parsed value
cacheGet(c, r) ==
  IF unavailable(c) THEN Value(Null)
  ELSE IF ~r.up THEN Value(Null)
  ELSE IF r.held THEN Value(parse(r.json)) ELSE Value(Null)

\* set(key, value): false when unavailable or on an error of client.setEx
cacheSet(c, r, v) ==
  IF unavailable(c) \/ ~r.up
  THEN [ret |-> Value("false"), redis |-> r]
  ELSE [ret |-> Value("true"), redis |-> [r EXCEPT !.held = TRUE, !.json = stringify(v)]]

\* del(key): false when unavailable or on an error of client.del
cacheDel(c, r) ==
  IF unavailable(c) \/ ~r.up
  THEN [ret |-> Value("false"), redis |-> r]
  ELSE [ret |-> Value("true"), redis |-> [r EXCEPT !.held = FALSE, !.json = <<>>]]

\* invalidatePattern(pattern): client.keys, then client.del of what it found
cacheInvalidatePattern(c, r) ==
  IF unavailable(c) \/ ~r.up
  THEN [ret |-> Value("undefined"), redis |-> r]
  ELSE [ret |-> Value("undefined"), redis |-> [r EXCEPT !.held = FALSE, !.json = <<>>]]

\* a caller calls get, set, del, invalidatePattern or getOrSet
CacheCall(p, op) ==
  /\ Accept(p, op, [NoReq EXCEPT !.op = op])
  /\ UNCHANGED <<Database, aux>>

\* the call returns: the slot is free and returned holds the result
Return(p, result) ==
  /\ Reply(p, "DONE")
  /\ returned' = [returned EXCEPT ![p] = result]

CacheGet(p) ==
  /\ pc[p] = "cache_get"
  /\ Return(p, cacheGet(cache, redis))
  /\ UNCHANGED <<Database, cache, redis, scopeCache, clock, profile>>

CacheSet(p, v) ==
  /\ pc[p] = "cache_set"
  /\ Return(p, cacheSet(cache, redis, v).ret)
  /\ redis' = cacheSet(cache, redis, v).redis
  /\ UNCHANGED <<Database, cache, scopeCache, clock, profile>>

CacheDel(p) ==
  /\ pc[p] = "cache_del"
  /\ Return(p, cacheDel(cache, redis).ret)
  /\ redis' = cacheDel(cache, redis).redis
  /\ UNCHANGED <<Database, cache, scopeCache, clock, profile>>

CacheInvalidatePattern(p) ==
  /\ pc[p] = "cache_inv"
  /\ Return(p, cacheInvalidatePattern(cache, redis).ret)
  /\ redis' = cacheInvalidatePattern(cache, redis).redis
  /\ UNCHANGED <<Database, cache, scopeCache, clock, profile>>

\* getOrSet: const cached = await this.get(key); if (cached !== null) return
GetOrSetGet(p) ==
  /\ pc[p] = "gos_get"
  /\ LET cached == cacheGet(cache, redis) IN
       IF cached.kind = "thrown" THEN Return(p, Thrown)
       ELSE IF cached.value # Null THEN Return(p, cached)
       ELSE /\ pc' = [pc EXCEPT ![p] = "gos_fetch"]
            /\ UNCHANGED <<req, resp, returned>>
  /\ UNCHANGED <<Database, cache, redis, scopeCache, clock, profile>>

\* getOrSet: const fresh = await fetchFn(); a throw of fetchFn is caught
\* and null is returned
GetOrSetFetch(p, outcome) ==
  /\ pc[p] = "gos_fetch"
  /\ outcome \in CacheValues \cup {"throws"}
  /\ IF outcome = "throws" THEN Return(p, Value(Null))
     ELSE /\ pc' = [pc EXCEPT ![p] = "gos_set"]
          /\ req' = [req EXCEPT ![p].fresh = outcome]
          /\ UNCHANGED <<resp, returned>>
  /\ UNCHANGED <<Database, cache, redis, scopeCache, clock, profile>>

\* getOrSet: await this.set(key, fresh, ttlSeconds); return fresh
GetOrSetSet(p) ==
  /\ pc[p] = "gos_set"
  /\ redis' = cacheSet(cache, redis, req[p].fresh).redis
  /\ Return(p, Value(req[p].fresh))
  /\ UNCHANGED <<Database, cache, scopeCache, clock, profile>>

(***************************************************************************)
(* clients/profile.ts: getUserScope                                        *)
(***************************************************************************)
\* const SCOPE_TTL_MS = 5 * 60 * 1000
SCOPE_TTL_MS == 5 * 60 * 1000

Scope(collegeId, department) ==
  [NoReturn EXCEPT !.kind = "scope", !.collegeId = collegeId, !.department = department]

\* the lookup without the expiry test
cacheCacheGetStale(entries, key, at) ==
  IF entries[key].exists
  THEN [hit |-> TRUE, scope |-> Scope(entries[key].collegeId, entries[key].department),
        entries |-> entries]
  ELSE [hit |-> FALSE, scope |-> NoReturn, entries |-> entries]

\* cacheCacheGet(key, now): the entry while v.expiresAt > now; an expired
\* entry is deleted
cacheCacheGet(entries, key, at) ==
  IF entries[key].exists /\ entries[key].expiresAt > at
  THEN [hit |-> TRUE, scope |-> Scope(entries[key].collegeId, entries[key].department),
        entries |-> entries]
  ELSE [hit |-> FALSE, scope |-> NoReturn,
        entries |-> [entries EXCEPT ![key] = NoScope]]

\* getUserScope(req, payload) is called
ScopeCall(p, u, authorization) ==
  /\ Accept(p, "scope_get", [NoReq EXCEPT !.op = "getUserScope", !.user = u,
                                          !.authorization = authorization])
  /\ UNCHANGED <<Database, aux>>

\* now = Date.now(), the cache lookup, the Authorization header test
ScopeGet(p) ==
  /\ pc[p] = "scope_get"
  /\ LET cached == cacheCacheGet(scopeCache, req[p].user, clock) IN
       /\ scopeCache' = cached.entries
       /\ IF cached.hit THEN Return(p, cached.scope)
          ELSE IF ~req[p].authorization THEN Return(p, Thrown)
          ELSE /\ pc' = [pc EXCEPT ![p] = "scope_fetch"]
               /\ req' = [req EXCEPT ![p].calledAt = clock]
               /\ UNCHANGED <<resp, returned>>
  /\ UNCHANGED <<Database, cache, redis, clock, profile>>

\* the fetch of /v1/profile/me returns: !res.ok throws, a profile without
\* collegeId or department throws, else the scope is cached until
\* now + SCOPE_TTL_MS and returned
ScopeFetch(p) ==
  /\ pc[p] = "scope_fetch"
  /\ IF profile.status # "ok" \/ profile.collegeId = "" \/ profile.department = ""
     THEN Return(p, Thrown) /\ UNCHANGED scopeCache
     ELSE /\ scopeCache' = [scopeCache EXCEPT ![req[p].user] =
               [exists |-> TRUE, collegeId |-> profile.collegeId,
                department |-> profile.department,
                expiresAt |-> req[p].calledAt + SCOPE_TTL_MS]]
          /\ Return(p, Scope(profile.collegeId, profile.department))
  /\ UNCHANGED <<Database, cache, redis, clock, profile>>

\* the profile service changes what it answers
ProfileChange(answer) ==
  /\ answer # profile
  /\ profile' = answer
  /\ UNCHANGED <<Database, cache, redis, scopeCache, clock, returned, pc, req, resp>>

\* Date.now() moves on to a later instant
ClockAdvance(t) ==
  /\ t > clock
  /\ clock' = t
  /\ UNCHANGED <<Database, cache, redis, scopeCache, profile, returned, pc, req, resp>>

\* the badge service changes its answer, fails or comes back
ProviderChange(answer) ==
  /\ answer \in ProviderAnswers \ {provider}
  /\ provider' = answer
  /\ UNCHANGED <<events, flows, registrations, now, flowStoreUp, auditLog, auditStoreUp,
                 policies, aux, pc, req, resp>>

\* the audit-log table becomes unavailable, or available again
AuditStoreFault ==
  /\ auditStoreUp' = ~auditStoreUp
  /\ UNCHANGED <<events, flows, registrations, now, flowStoreUp, auditLog, policies, provider, aux, pc, req, resp>>

\* time passes
Tick ==
  /\ now < MaxTime
  /\ now' = now + 1
  /\ UNCHANGED <<events, flows, registrations, flowStoreUp, auditLog, auditStoreUp, policies, provider, aux, pc, req, resp>>

\* the default delay passes, less an hour
Elapse ==
  /\ now <= MaxTime
  /\ now' = now + DefaultEscalationDelay - 1
  /\ UNCHANGED <<events, flows, registrations, flowStoreUp, auditLog, auditStoreUp, policies, provider, aux, pc, req, resp>>

(***************************************************************************)
(* Specifications                                                          *)
(***************************************************************************)
PcValues ==
  {"idle", "reg_find", "reg_count", "reg_create", "reg_commit",
   "unreg_find", "unreg_delete", "create_event", "create_flow",
   "mod_find", "mod_event", "mod_flow", "adm_find", "adm_event", "adm_flow",
   "bulk_find", "bulk_update", "upd_find", "upd_write",
   "adm_audit", "bulk_audit", "admget_find", "del_find", "del_write",
   "get_find", "export_find", "list_find", "list_regs",
   "esc_check", "esc_find", "esc_update",
   "cache_get", "cache_set", "cache_del", "cache_inv",
   "gos_get", "gos_fetch", "gos_set", "scope_get", "scope_fetch"}

TypeOK ==
  /\ \A p \in Procs : pc[p] \in PcValues
  /\ now \in Times \cup {t + DefaultEscalationDelay - 1 : t \in Times}

\* the freshly migrated, empty database
Init ==
  /\ events = [e \in EventIds |-> NoEvent]
  /\ flows = [e \in EventIds |-> NoFlow]
  /\ registrations = [e \in EventIds |-> [u \in Users |-> 0]]
  /\ now = 1
  /\ flowStoreUp = TRUE
  /\ auditLog = 0
  /\ auditStoreUp = TRUE
  /\ provider = "allow"
  /\ AuxIdle
  /\ policies = [c \in Colleges |-> NoPolicy]
  /\ pc = [p \in 1..NumProcs |-> "idle"]
  /\ req = [p \in 1..NumProcs |-> NoReq]
  /\ resp = [p \in 1..NumProcs |-> "NONE"]

RegUsers == {"s1", "s2", "x1"}

\* an existing event of college c1, as create / moderate / update leave it
InitReg ==
  /\ \E st \in ModerationStatus, cap \in {NoCapacity} \cup Capacities :
       events = [e \in EventIds |->
                   IF e = 1
                   THEN [NoEvent EXCEPT !.exists = TRUE, !.collegeId = "c1",
                                        !.authorId = "f1", !.authorRole = "FACULTY",
                                        !.capacity = cap, !.moderationStatus = st]
                   ELSE NoEvent]
  /\ flows = [e \in EventIds |-> NoFlow]
  /\ registrations = [e \in EventIds |-> [u \in Users |-> 0]]
  /\ now = 1
  /\ flowStoreUp = TRUE
  /\ auditLog = 0
  /\ auditStoreUp = TRUE
  /\ provider = "allow"
  /\ AuxIdle
  /\ policies = [c \in Colleges |-> NoPolicy]
  /\ pc = [p \in 1..NumProcs |-> "idle"]
  /\ req = [p \in 1..NumProcs |-> NoReq]
  /\ resp = [p \in 1..NumProcs |-> "NONE"]

\* the event the registration scenarios are about
RegEvents == {1}

NextReg ==
  \E p \in Procs :
    \/ \E u \in RegUsers, e \in RegEvents : RegisterBegin(p, u, e)
    \/ RegisterFind(p)
    \/ RegisterCount(p)
    \/ RegisterCreate(p)
    \/ RegisterCommit(p)
    \/ \E u \in RegUsers, e \in RegEvents : UnregisterBegin(p, u, e)
    \/ UnregisterFind(p)
    \/ UnregisterDelete(p)

SpecReg == InitReg /\ [][NextReg]_vars

\* N distinct users of college c1, one register request each, against a
\* fresh APPROVED event whose capacity is smaller than N
RaceUserOf == <<"s1", "s2", "f1", "d1", "h1">>

InitRace ==
  /\ \E cap \in Capacities \cap 1..(RaceUsers - 1) :
       events = [e \in EventIds |->
                   IF e = 1
                   THEN [NoEvent EXCEPT !.exists = TRUE, !.collegeId = "c1",
                                        !.authorId = "f1", !.authorRole = "FACULTY",
                                        !.capacity = cap, !.moderationStatus = "APPROVED"]
                   ELSE NoEvent]
  /\ flows = [e \in EventIds |-> NoFlow]
  /\ registrations = [e \in EventIds |-> [u \in Users |-> 0]]
  /\ now = 1
  /\ flowStoreUp = TRUE
  /\ auditLog = 0
  /\ auditStoreUp = TRUE
  /\ provider = "allow"
  /\ AuxIdle
  /\ policies = [c \in Colleges |-> NoPolicy]
  /\ pc = [p \in RaceProcs |-> "idle"]
  /\ req = [p \in RaceProcs |-> NoReq]
  /\ resp = [p \in RaceProcs |-> "NONE"]

NextRace ==
  \E p \in Procs :
    \/ resp[p] = "NONE" /\ RegisterBegin(p, RaceUserOf[p], 1)
    \/ RegisterFind(p)
    \/ RegisterCount(p)
    \/ RegisterCreate(p)
    \/ RegisterCommit(p)

SpecRace == InitRace /\ [][NextRace]_vars

CreateUsers == {"s1", "f1", "t1"}

\* capacity left out, or given
CreateCapacities == {NoCapacity, 1}

NextCreate ==
  \/ \E p \in Procs :
       \/ \E u \in CreateUsers, authorization \in BOOLEAN : CreateBegin(p, u, authorization)
       \/ \E cap \in CreateCapacities : CreateEvent(p, CapacityBody(cap))
       \/ CreateFlow(p)
  \/ FlowStoreFault

SpecCreate == Init /\ [][NextCreate]_vars

\* creation while the eligibility provider changes its answer
EligibilityUsers == {"s1", "f1"}

NextEligibility ==
  \/ \E p \in Procs :
       \/ \E u \in EligibilityUsers, authorization \in BOOLEAN : CreateBegin(p, u, authorization)
       \/ \E cap \in CreateCapacities : CreateEvent(p, CapacityBody(cap))
       \/ CreateFlow(p)
  \/ \E answer \in ProviderAnswers : ProviderChange(answer)

SpecEligibility == Init /\ [][NextEligibility]_vars

\* an event of college c1 as the create handler leaves it: written by a
\* student and pending, with its flow or (the flow write failed) without;
\* or written by a faculty member and approved
CreatedRows(author, withFlow, deptAdmin) ==
  /\ ~isStudent(author) => (~withFlow /\ deptAdmin = None)
  /\ ~withFlow => deptAdmin = None
  /\ events = [e \in EventIds |->
       IF e = 1
       THEN [NoEvent EXCEPT
               !.exists = TRUE, !.collegeId = UserCollege(author), !.authorId = author,
               !.authorRole = IF isStudent(author) THEN "STUDENT" ELSE FirstRole(author),
               !.moderationStatus =
                  IF isStudent(author) THEN "PENDING_REVIEW" ELSE "APPROVED"]
       ELSE NoEvent]
  /\ flows = [e \in EventIds |->
       IF e = 1 /\ withFlow
       THEN [NoFlow EXCEPT !.exists = TRUE, !.assignedTo = deptAdmin,
                           !.submittedAt = 1]
       ELSE NoFlow]

InitMod ==
  /\ \E author \in {"s1", "f1"}, withFlow \in BOOLEAN, deptAdmin \in {None, "d1"} :
       CreatedRows(author, withFlow, deptAdmin)
  /\ registrations = [e \in EventIds |-> [u \in Users |-> 0]]
  /\ now = 1
  /\ flowStoreUp = TRUE
  /\ auditLog = 0
  /\ auditStoreUp = TRUE
  /\ provider = "allow"
  /\ AuxIdle
  /\ policies = [c \in Colleges |-> NoPolicy]
  /\ pc = [p \in ModProcs |-> "idle"]
  /\ req = [p \in ModProcs |-> NoReq]
  /\ resp = [p \in ModProcs |-> "NONE"]

ModUsers == {"d1", "h1"}
Mentors == {None, "f1"}
Reasons == {None, "off-topic"}
UpdateUsers == {"s1", "f1"}

NextMod ==
  \/ \E p \in Procs :
       \/ \E u \in ModUsers, e \in EventIds : ModerateBegin(p, u, e)
       \/ \E a \in {"APPROVE", "REJECT", "ASSIGN"}, m \in Mentors : ModerateFind(p, a, m)
       \/ ModerateEvent(p)
       \/ \E r \in Reasons, m \in Mentors : ModerateFlow(p, r, m)
       \/ \E u \in ModUsers, e \in EventIds : AdminModerateBegin(p, u, e)
       \/ \E a \in {"APPROVE", "REJECT", "ASSIGN_MENTOR", "ESCALATE"}, m \in Mentors :
            AdminModerateFind(p, a, m)
       \/ \E st \in ModerationStatus \cup {None} : AdminModerateEvent(p, st)
       \/ \E r \in Reasons : AdminModerateFlow(p, r)
       \/ AdminModerateAudit(p)
       \/ \E u \in ModUsers : BulkModerateBegin(p, u)
       \/ \E ids \in SUBSET EventIds, a \in {"APPROVE", "REJECT", "ARCHIVE"} :
            BulkModerateFind(p, ids, a)
       \/ BulkModerateUpdate(p)
       \/ BulkModerateAudit(p)
       \/ \E u \in UpdateUsers, e \in EventIds : UpdateBegin(p, u, e)
       \/ UpdateFind(p)
       \/ \E given \in BOOLEAN, cap \in Capacities :
            (given \/ cap = 1)
            /\ UpdateWrite(p, [NoBody EXCEPT !.given = IF given THEN {"capacity"} ELSE {},
                                             !.capacity = IF given THEN cap ELSE NoCapacity])
  \/ Tick

SpecMod == InitMod /\ [][NextMod]_vars

\* callers of the routes that write an event: the student author, faculty,
\* both admin roles, and a head admin of another college
AccessUsers == {"s1", "f1", "d1", "h1", "h2"}

NextAccess ==
  \E p \in Procs :
    \/ \E u \in AccessUsers, e \in EventIds :
         \/ ModerateBegin(p, u, e)
         \/ AdminModerateBegin(p, u, e)
         \/ UpdateBegin(p, u, e)
         \/ DeleteBegin(p, u, e)
         \/ AdminGetBegin(p, u, e)
    \/ \E u \in AccessUsers : BulkModerateBegin(p, u)
    \/ \E a \in {"APPROVE", "REJECT", "ASSIGN"} : ModerateFind(p, a, None)
    \/ ModerateEvent(p)
    \/ ModerateFlow(p, None, None)
    \/ \E a \in {"APPROVE", "REJECT", "ASSIGN_MENTOR", "ESCALATE"} :
         AdminModerateFind(p, a, None)
    \/ \E st \in ModerationStatus \cup {None} : AdminModerateEvent(p, st)
    \/ AdminModerateFlow(p, None)
    \/ AdminModerateAudit(p)
    \/ \E ids \in SUBSET EventIds, a \in {"APPROVE", "REJECT", "ARCHIVE"} :
         BulkModerateFind(p, ids, a)
    \/ BulkModerateUpdate(p)
    \/ BulkModerateAudit(p)
    \/ UpdateFind(p)
    \/ UpdateWrite(p, NoBody)
    \/ DeleteFind(p)
    \/ DeleteWrite(p)
    \/ AdminGetFind(p)

\* the rows of InitMod in a college without a department admin: the
\* assignee of the flow is read by none of the access decisions
InitAccess ==
  /\ InitMod
  /\ \A e \in EventIds : flows[e].assignedTo = None

SpecAccess == InitAccess /\ [][NextAccess]_vars

\* an approved faculty event, open for registration, with or without a
\* capacity and with or without the registration of s2
InitCascade ==
  /\ \E cap \in {NoCapacity, MaxCapacity}, n \in {0, 1} :
       /\ events = [e \in EventIds |->
            IF e = 1
            THEN [NoEvent EXCEPT !.exists = TRUE, !.collegeId = "c1",
                                 !.authorId = "f1", !.authorRole = "FACULTY",
                                 !.capacity = cap, !.moderationStatus = "APPROVED"]
            ELSE NoEvent]
       /\ registrations = [e \in EventIds |->
            [u \in Users |-> IF e = 1 /\ u = "s2" THEN n ELSE 0]]
  /\ flows = [e \in EventIds |-> NoFlow]
  /\ now = 1
  /\ flowStoreUp = TRUE
  /\ auditLog = 0
  /\ auditStoreUp = TRUE
  /\ provider = "allow"
  /\ AuxIdle
  /\ policies = [c \in Colleges |-> NoPolicy]
  /\ pc = [p \in 1..NumProcs |-> "idle"]
  /\ req = [p \in 1..NumProcs |-> NoReq]
  /\ resp = [p \in 1..NumProcs |-> "NONE"]

\* students register while a faculty member deletes the event
NextCascade ==
  \E p \in Procs :
    \/ \E u \in {"s1", "s2"}, e \in EventIds : RegisterBegin(p, u, e)
    \/ RegisterFind(p)
    \/ RegisterCount(p)
    \/ RegisterCreate(p)
    \/ RegisterCommit(p)
    \/ \E e \in EventIds : DeleteBegin(p, "f1", e)
    \/ DeleteFind(p)
    \/ DeleteWrite(p)

SpecCascade == InitCascade /\ [][NextCascade]_vars

\* a process that has not called connect() yet; Redis may be disabled by
\* REDIS_DISABLED and may be down
InitCache ==
  /\ events = [e \in EventIds |-> NoEvent]
  /\ flows = [e \in EventIds |-> NoFlow]
  /\ registrations = [e \in EventIds |-> [u \in Users |-> 0]]
  /\ now = 1
  /\ flowStoreUp = TRUE
  /\ auditLog = 0
  /\ auditStoreUp = TRUE
  /\ provider = "allow"
  /\ policies = [c \in Colleges |-> NoPolicy]
  /\ cache = NoClient
  /\ \E up \in BOOLEAN, disabled \in BOOLEAN :
       redis = [RedisEmpty EXCEPT !.up = up, !.disabled = disabled]
  /\ scopeCache = [u \in Users |-> NoScope]
  /\ clock = 0
  /\ profile = ProfileOk
  /\ returned = [p \in 1..NumProcs |-> NoReturn]
  /\ pc = [p \in ModProcs |-> "idle"]
  /\ req = [p \in ModProcs |-> NoReq]
  /\ resp = [p \in ModProcs |-> "NONE"]

CacheOps == {"cache_get", "cache_set", "cache_del", "cache_inv", "gos_get"}

NextCache ==
  \/ \E p \in Procs :
       \/ \E op \in CacheOps : CacheCall(p, op)
       \/ CacheGet(p)
       \/ \E v \in CacheValues : CacheSet(p, v)
       \/ CacheDel(p)
       \/ CacheInvalidatePattern(p)
       \/ GetOrSetGet(p)
       \/ \E outcome \in CacheValues \cup {"throws"} : GetOrSetFetch(p, outcome)
       \/ GetOrSetSet(p)
  \/ CacheConnect
  \/ CacheDisconnect
  \/ RedisErrorEvent
  \/ RedisConnectEvent
  \/ RedisFault
  \/ RedisExpire

SpecCache == InitCache /\ [][NextCache]_vars

\* the answers of the profile service
ProfileAnswers ==
  {[status |-> st, collegeId |-> "", department |-> ""] : st \in {"unreachable", "notOk"}}
    \cup {[status |-> "ok", collegeId |-> c, department |-> d] :
            c \in {"", "c1"}, d \in {"", "CS"}}

\* the instants at which Date.now() is read: the start and the last
\* millisecond of each lifetime of a cache entry
ScopeInstants ==
  {k * SCOPE_TTL_MS + j : k \in 0..(MaxScopeLifetimes - 1), j \in {0, SCOPE_TTL_MS - 1}}

ScopeUsers == {"s1", "f1"}

InitScope ==
  /\ events = [e \in EventIds |-> NoEvent]
  /\ flows = [e \in EventIds |-> NoFlow]
  /\ registrations = [e \in EventIds |-> [u \in Users |-> 0]]
  /\ now = 1
  /\ flowStoreUp = TRUE
  /\ auditLog = 0
  /\ auditStoreUp = TRUE
  /\ provider = "allow"
  /\ policies = [c \in Colleges |-> NoPolicy]
  /\ cache = NoClient
  /\ redis = RedisEmpty
  /\ scopeCache = [u \in Users |-> NoScope]
  /\ clock = 0
  /\ profile \in ProfileAnswers
  /\ returned = [p \in 1..NumProcs |-> NoReturn]
  /\ pc = [p \in ModProcs |-> "idle"]
  /\ req = [p \in ModProcs |-> NoReq]
  /\ resp = [p \in ModProcs |-> "NONE"]

NextScope ==
  \/ \E p \in Procs :
       \/ \E u \in ScopeUsers, authorization \in BOOLEAN : ScopeCall(p, u, authorization)
       \/ ScopeGet(p)
       \/ ScopeFetch(p)
  \/ \E answer \in ProfileAnswers : ProfileChange(answer)
  \/ \E t \in ScopeInstants : ClockAdvance(t)

SpecScope == InitScope /\ [][NextScope]_vars

\* Creation and partial update of the content fields by a faculty member.
\* A body varies the keys of one group (visibility, dates, or mode and its
\* fields) over absent and each value, on top of base.
Modes == {"ONLINE", "ONSITE", "HYBRID"}

Absent == {"absent"}

VisibilityBodies(base) ==
  {[base EXCEPT
      !.given = (@ \ {"visibleToAllDepts", "departments"})
                  \cup (IF v = 0 THEN {} ELSE {"visibleToAllDepts"})
                  \cup (IF d = 0 THEN {} ELSE {"departments"}),
      !.visibleToAllDepts = (v # 2),
      !.departments = IF d = 2 THEN {"CS"} ELSE {}] :
     v \in 0..2, d \in 0..2}

DateBodies(base) ==
  {[base EXCEPT
      !.given = (@ \ {"startAt", "endAt"})
                  \cup (IF st = 0 THEN {} ELSE {"startAt"})
                  \cup (IF en = 0 THEN {} ELSE {"endAt"}),
      !.startAt = IF st = 0 THEN 1 ELSE st,
      !.endAt = IF en = 0 THEN 1 ELSE en] :
     st \in 0..2, en \in 0..2}

ModeBodies(base) ==
  {[base EXCEPT
      !.given = (@ \ {"mode", "location", "meetingUrl"})
                  \cup (IF m \in Absent THEN {} ELSE {"mode"})
                  \cup (IF l \in Absent THEN {} ELSE {"location"})
                  \cup (IF u \in Absent THEN {} ELSE {"meetingUrl"}),
      !.mode = IF m \in Absent THEN "ONSITE" ELSE m,
      !.location = IF l \in Absent THEN "" ELSE l,
      !.meetingUrl = IF u \in Absent THEN "" ELSE u] :
     m \in Absent \cup Modes, l \in Absent \cup {"", "hall"},
     u \in Absent \cup {"https://meet"}}

FieldBodies(base) == VisibilityBodies(base) \cup DateBodies(base) \cup ModeBodies(base)

NextFields ==
  \E p \in Procs :
    \/ CreateBegin(p, "f1", TRUE)
    \/ \E body \in FieldBodies(CapacityBody(NoCapacity)) : CreateEvent(p, body)
    \/ \E e \in EventIds : UpdateBegin(p, "f1", e)
    \/ UpdateFind(p)
    \/ \E body \in FieldBodies(NoBody) : UpdateWrite(p, body)

SpecFields == Init /\ [][NextFields]_vars

\* moderation on /v1/events/:id/moderate with and without a monitorId,
\* while the flow store fails and recovers
NextAssign ==
  \/ \E p \in Procs :
       \/ \E u \in ModUsers, e \in EventIds : ModerateBegin(p, u, e)
       \/ \E a \in {"APPROVE", "REJECT", "ASSIGN"} : ModerateFind(p, a, None)
       \/ ModerateEvent(p)
       \/ \E m \in Mentors : ModerateFlow(p, None, m)
  \/ FlowStoreFault

SpecAssign == InitMod /\ [][NextAssign]_vars

\* moderation while the flow store and the audit store fail and recover
NextFault ==
  \/ \E p \in Procs :
       \/ \E u \in ModUsers, e \in EventIds :
            \/ ModerateBegin(p, u, e)
            \/ AdminModerateBegin(p, u, e)
       \/ \E u \in ModUsers : BulkModerateBegin(p, u)
       \/ \E a \in {"APPROVE", "REJECT", "ASSIGN"} : ModerateFind(p, a, None)
       \/ ModerateEvent(p)
       \/ ModerateFlow(p, None, None)
       \/ \E a \in {"APPROVE", "REJECT", "ASSIGN_MENTOR", "ESCALATE"} :
            AdminModerateFind(p, a, None)
       \/ AdminModerateEvent(p, None)
       \/ AdminModerateFlow(p, None)
       \/ AdminModerateAudit(p)
       \/ \E ids \in SUBSET EventIds, a \in {"APPROVE", "REJECT", "ARCHIVE"} :
            BulkModerateFind(p, ids, a)
       \/ BulkModerateUpdate(p)
       \/ BulkModerateAudit(p)
  \/ FlowStoreFault
  \/ AuditStoreFault

SpecFault == InitMod /\ [][NextFault]_vars

\* one reader: reads change nothing, so they do not affect one another
ViewProcs == {1}
ViewUsers == {"s1", "s2", "f1", "x1"}
Titles == {<<"A", "I">>, <<"w", "e", "b">>}
Queries == {NoText, <<"a", "i">>, <<"e">>}
Departments == {"CS", "EE"}

DepartmentLists == <<{}, {"CS"}, {"EE"}, {"CS", "EE"}>>

\* the rows create and moderation can leave in the Event table: create
\* stores no departments with visibleToAllDepts
ViewEvents ==
  {NoEvent} \cup
  {[NoEvent EXCEPT !.exists = TRUE, !.collegeId = c, !.authorId = "f1",
                   !.authorRole = "FACULTY", !.moderationStatus = st,
                   !.visibleToAllDepts = (d = 0),
                   !.departments = IF d = 0 THEN {} ELSE DepartmentLists[d],
                   !.title = t] :
     c \in {"c1", "c2"}, st \in ModerationStatus, d \in 0..4, t \in Titles}

InitView ==
  /\ events \in [EventIds -> ViewEvents]
  /\ flows = [e \in EventIds |-> NoFlow]
  /\ registrations = [e \in EventIds |-> [u \in Users |-> 0]]
  /\ now = 1
  /\ flowStoreUp = TRUE
  /\ auditLog = 0
  /\ auditStoreUp = TRUE
  /\ provider = "allow"
  /\ AuxIdle
  /\ policies = [c \in Colleges |-> NoPolicy]
  /\ pc = [p \in ViewProcs |-> "idle"]
  /\ req = [p \in ViewProcs |-> NoReq]
  /\ resp = [p \in ViewProcs |-> "NONE"]

NextView ==
  \E p \in Procs :
    \/ \E u \in ViewUsers, e \in EventIds : GetBegin(p, u, e)
    \/ GetFind(p)
    \/ \E u \in ViewUsers : ListBegin(p, u)
    \/ \E q \in Queries, d \in {None} \cup Departments,
          st \in {None} \cup ModerationStatus : ListFind(p, q, d, st)
    \/ ListRegs(p)
    \/ \E u \in ViewUsers, e \in EventIds : ExportBegin(p, u, e)
    \/ ExportFind(p)

SpecView == InitView /\ [][NextView]_vars

\* the created event, and for an approved one possibly a registration of s2
InitOwner ==
  /\ \E author \in {"s1", "f1"}, withFlow \in BOOLEAN :
       CreatedRows(author, withFlow, None)
  /\ \E n \in {0, 1} :
       /\ n = 1 => events[1].moderationStatus = "APPROVED"
       /\ registrations = [e \in EventIds |->
            [u \in Users |-> IF e = 1 /\ u = "s2" THEN n ELSE 0]]
  /\ now = 1
  /\ flowStoreUp = TRUE
  /\ auditLog = 0
  /\ auditStoreUp = TRUE
  /\ provider = "allow"
  /\ AuxIdle
  /\ policies = [c \in Colleges |-> NoPolicy]
  /\ pc = [p \in ModProcs |-> "idle"]
  /\ req = [p \in ModProcs |-> NoReq]
  /\ resp = [p \in ModProcs |-> "NONE"]

\* the author, another student, faculty, a student who is also faculty, and
\* a department admin
OwnerUsers == {"s1", "s2", "f1", "t1", "d1"}

NextOwner ==
  \E p \in Procs :
    \/ \E u \in OwnerUsers, e \in EventIds : UpdateBegin(p, u, e) \/ DeleteBegin(p, u, e)
    \/ UpdateFind(p)
    \/ \E cap \in {NoCapacity, 1} :
         UpdateWrite(p, [NoBody EXCEPT !.given = IF cap = NoCapacity THEN {} ELSE {"capacity"},
                                       !.capacity = cap])
    \/ DeleteFind(p)
    \/ DeleteWrite(p)
    \/ \E e \in EventIds : ModerateBegin(p, "d1", e)
    \/ \E a \in {"APPROVE", "REJECT"} : ModerateFind(p, a, None)
    \/ ModerateEvent(p)
    \/ ModerateFlow(p, None, None)

SpecOwner == InitOwner /\ [][NextOwner]_vars

\* the escalation policies a college may have: none, escalation to the
\* head admin, or a backup approver
Policies ==
  {NoPolicy} \cup
  {[exists |-> TRUE, escalationDelayHours |-> d, backupApprovers |-> b,
    autoEscalateToHead |-> h] :
     d \in {0, 1, 2}, b \in {<<>>, <<"f1">>, <<"t1", "f1">>}, h \in BOOLEAN}

\* a pending student event of college c1 with its flow, and the policy table
InitEsc ==
  /\ \E deptAdmin \in {None, "d1"} : CreatedRows("s1", TRUE, deptAdmin)
  /\ registrations = [e \in EventIds |-> [u \in Users |-> 0]]
  /\ policies \in [Colleges -> Policies]
  /\ policies["c2"] = NoPolicy
  /\ now = 1
  /\ flowStoreUp = TRUE
  /\ auditLog = 0
  /\ auditStoreUp = TRUE
  /\ provider = "allow"
  /\ AuxIdle
  /\ pc = [p \in 1..NumProcs |-> "idle"]
  /\ req = [p \in 1..NumProcs |-> NoReq]
  /\ resp = [p \in 1..NumProcs |-> "NONE"]

NextEsc ==
  \/ \E p \in Procs :
       \/ \E e \in EventIds : EscalationBegin(p, e)
       \/ CheckEscalation(p)
       \/ EscalateFind(p)
       \/ EscalateUpdate(p)
  \/ Tick
  \/ Elapse

SpecEsc == InitEsc /\ [][NextEsc]_vars

\* an escalation sweep next to the moderation of the same event
NextSweep ==
  \/ \E p \in Procs :
       \/ \E e \in EventIds : EscalationBegin(p, e)
       \/ CheckEscalation(p)
       \/ EscalateFind(p)
       \/ EscalateUpdate(p)
       \/ \E u \in ModUsers, e \in EventIds : ModerateBegin(p, u, e)
       \/ \E a \in {"APPROVE", "REJECT"} : ModerateFind(p, a, None)
       \/ ModerateEvent(p)
       \/ \E r \in Reasons : ModerateFlow(p, r, None)
  \/ Tick

\* the rows of InitEsc under a policy that names a backup approver
InitSweep ==
  /\ InitEsc
  /\ policies["c1"].exists
  /\ policies["c1"].backupApprovers = <<"f1">>
  /\ policies["c1"].escalationDelayHours \in {1, 2}

SpecSweep == InitSweep /\ [][NextSweep]_vars

\* register requests next to the moderation of the same event
NextRegMod ==
  \E p \in Procs :
    \/ \E u \in {"s1", "s2"}, e \in RegEvents : RegisterBegin(p, u, e)
    \/ RegisterFind(p)
    \/ RegisterCount(p)
    \/ RegisterCreate(p)
    \/ RegisterCommit(p)
    \/ \E u \in ModUsers, e \in RegEvents : ModerateBegin(p, u, e)
    \/ \E a \in {"APPROVE", "REJECT"} : ModerateFind(p, a, None)
    \/ ModerateEvent(p)
    \/ \E r \in Reasons : ModerateFlow(p, r, None)

SpecRegMod == InitReg /\ [][NextRegMod]_vars

\* register requests next to updates of the capacity of the same event
NextRegCap ==
  \E p \in Procs :
    \/ \E u \in {"s1", "s2"}, e \in RegEvents : RegisterBegin(p, u, e)
    \/ RegisterFind(p)
    \/ RegisterCount(p)
    \/ RegisterCreate(p)
    \/ RegisterCommit(p)
    \/ \E e \in RegEvents : UpdateBegin(p, "f1", e)
    \/ UpdateFind(p)
    \/ \E cap \in Capacities :
         UpdateWrite(p, [NoBody EXCEPT !.given = {"capacity"}, !.capacity = cap])

SpecRegCap == InitReg /\ [][NextRegCap]_vars

\* a pending student event of college c1 with its flow, no policy
InitPending ==
  /\ InitEsc
  /\ \A c \in Colleges : policies[c] = NoPolicy

\* the author's update and delete requests next to the moderation of the
\* same event
NextOwnerRace ==
  \E p \in Procs :
    \/ \E e \in EventIds : UpdateBegin(p, "s1", e) \/ DeleteBegin(p, "s1", e)
    \/ UpdateFind(p)
    \/ \E cap \in Capacities :
         UpdateWrite(p, [NoBody EXCEPT !.given = {"capacity"}, !.capacity = cap])
    \/ DeleteFind(p)
    \/ DeleteWrite(p)
    \/ \E u \in ModUsers, e \in EventIds : ModerateBegin(p, u, e)
    \/ \E a \in {"APPROVE", "REJECT"} : ModerateFind(p, a, None)
    \/ ModerateEvent(p)
    \/ \E r \in Reasons : ModerateFlow(p, r, None)

SpecOwnerRace == InitPending /\ [][NextOwnerRace]_vars

\* the roles a token may carry for a caller: those the identity service
\* knows, or those of before a change of role
TokenRoles == {{"STUDENT"}, {"FACULTY"}}

\* creation by callers whose token roles may differ from their identity
NextToken ==
  \/ \E p \in Procs :
       \/ \E u \in EligibilityUsers, tokenRoles \in TokenRoles :
            CreateBeginAs(p, u, TRUE, tokenRoles)
       \/ \E cap \in CreateCapacities : CreateEvent(p, CapacityBody(cap))
       \/ CreateFlow(p)
  \/ \E answer \in ProviderAnswers : ProviderChange(answer)

SpecToken == Init /\ [][NextToken]_vars

\* the bodies of the update requests: no key, one key alone, or both dates
\* in the wrong order
UpdateBodies ==
  {NoBody,
   [NoBody EXCEPT !.given = {"mode"}, !.mode = "ONLINE"],
   [NoBody EXCEPT !.given = {"location"}, !.location = ""],
   [NoBody EXCEPT !.given = {"startAt"}, !.startAt = 2],
   [NoBody EXCEPT !.given = {"startAt", "endAt"}, !.startAt = 2, !.endAt = 1],
   [NoBody EXCEPT !.given = {"visibleToAllDepts"}, !.visibleToAllDepts = FALSE],
   [NoBody EXCEPT !.given = {"departments"}, !.departments = {"CS"}]}
    \cup {[NoBody EXCEPT !.given = {"capacity"}, !.capacity = cap] : cap \in Capacities}

\* update requests by the author, a faculty member and a student of another
\* college
NextUpdate ==
  \E p \in Procs :
    \/ \E u \in {"s1", "f1", "x1"}, e \in EventIds : UpdateBegin(p, u, e)
    \/ UpdateFind(p)
    \/ \E body \in UpdateBodies : UpdateWrite(p, body)

SpecUpdate == InitMod /\ [][NextUpdate]_vars

\* creation by callers whose user record may lack a collegeId, and reads
\* by id
NextIdentity ==
  \E p \in Procs :
    \/ \E u \in EligibilityUsers : CreateBegin(p, u, TRUE) \/ CreateBeginNoCollege(p, u)
    \/ \E cap \in CreateCapacities : CreateEvent(p, CapacityBody(cap))
    \/ CreateFlow(p)
    \/ \E u \in {"f1", "x1"}, e \in EventIds : GetBegin(p, u, e)
    \/ GetFind(p)

SpecIdentity == Init /\ [][NextIdentity]_vars

\* register and unregister requests that arrive one after the other: a
\* request is taken when no other is under way
NextRegSeq ==
  \E p \in Procs :
    \/ /\ \A q \in Procs : pc[q] = "idle"
       /\ \E u \in RegUsers, e \in RegEvents :
            RegisterBegin(p, u, e) \/ UnregisterBegin(p, u, e)
    \/ RegisterFind(p)
    \/ RegisterCount(p)
    \/ RegisterCreate(p)
    \/ RegisterCommit(p)
    \/ UnregisterFind(p)
    \/ UnregisterDelete(p)

SpecRegSeq == InitReg /\ [][NextRegSeq]_vars

Next ==
  \/ NextRegSeq
  \/ NextIdentity \/ NextUpdate
  \/ NextToken
  \/ NextSweep \/ NextRegMod \/ NextRegCap \/ NextOwnerRace
  \/ NextReg \/ NextCreate \/ NextMod \/ NextAccess \/ NextView \/ NextOwner
  \/ NextEsc \/ NextEligibility \/ NextFault \/ NextFields \/ NextCascade \/ NextCache \/ NextScope \/ NextAssign

Spec == Init /\ [][Next]_vars

(***************************************************************************)
(* Observations                                                            *)
(***************************************************************************)
\* slot p takes the step it is waiting at
Steps(p, at) == pc[p] = at /\ pc'[p] # at

InCollege(e, u) == events[e].exists /\ events[e].collegeId = UserCollege(u)

Settled(p) == pc[p] = "idle" /\ resp[p] # "NONE"

Answered(r) == {p \in Procs : Settled(p) /\ resp[p] = r}

(***************************************************************************)
(* Registration engine                                                     *)
(***************************************************************************)
\* C1: for every event with a capacity C, in every reachable state under any
\* interleaving of register and unregister requests, the number of
\* registration rows of the event is at most C.
CapacityNeverExceeded ==
  \A e \in EventIds :
    (events[e].exists /\ events[e].capacity # NoCapacity)
      => regCount(e) <= events[e].capacity

\* the event is filled to its capacity and a concurrent register transaction
\* that had passed the capacity check was refused at its insert or commit
CapacityRaceRefused ==
  \E e \in EventIds, p \in Procs :
    /\ events[e].capacity # NoCapacity
    /\ regCount(e) = events[e].capacity
    /\ Settled(p) /\ resp[p] = "INTERNAL"

\* C2 (as claimed): once N concurrent registrations of distinct users for a
\* fresh event of capacity C < N have settled, exactly C returned a
\* registration and the other N - C returned Full.
RaceExactlyCapacitySucceed ==
  (\A p \in Procs : Settled(p))
    => /\ Cardinality(Answered("CREATED")) = events[1].capacity
       /\ Cardinality(Answered("FULL")) = Cardinality(Procs) - events[1].capacity

\* C3: at most one registration row per (eventId, userId) pair.
UniqueRegistration ==
  \A e \in EventIds, u \in Users : registrations[e][u] <= 1

\* a user who holds a row asks again while another request of the same user
\* for the same event is waiting at its insert, and is told Already registered
DuplicateRefused ==
  \E p, q \in Procs :
    /\ p # q /\ Settled(p) /\ resp[p] = "ALREADY"
    /\ pc[q] = "reg_create"
    /\ registrations[req[q].event][req[q].user] = 1

\* C4 (as claimed): a register request by a user who holds a registration for
\* the event reports Already registered and leaves the registrations
\* unchanged, whatever the capacity and the registration count.
RegisteredUserGetsConflict ==
  [][\A p \in Procs :
       ( /\ pc[p] \in {"reg_count", "reg_create", "reg_commit"}
         /\ pc'[p] = "idle"
         /\ registrations[req[p].event][req[p].user] > 0 )
         => (resp'[p] = "ALREADY" /\ registrations' = registrations)]_vars

\* C40 (as claimed): register reports Full exactly when the event has a capacity and its
\* registration count is >= that capacity, and then writes no row; otherwise
\* a register by a user not yet registered for an APPROVED event creates a
\* row.  An event without capacity never reports Full.
FullExactlyAtCapacity ==
  [][\A p \in Procs :
       LET e == req[p].event
           u == req[p].user
           atCapacity == /\ events[e].capacity # NoCapacity
                         /\ regCount(e) >= events[e].capacity
       IN /\ resp'[p] = "FULL" /\ resp[p] # "FULL" => pc[p] = "reg_count"
          /\ Steps(p, "reg_count")
               => /\ atCapacity <=> (pc'[p] = "idle" /\ resp'[p] = "FULL")
                  /\ ~atCapacity <=> pc'[p] = "reg_create"
                  /\ registrations' = registrations
          /\ (Steps(p, "reg_create") /\ registrations[e][u] = 0)
               => pc'[p] = "reg_commit"
          /\ Steps(p, "reg_commit")
               => /\ resp'[p] = "CREATED"
                  /\ registrations'[e][u] = 1
                  /\ events[e].moderationStatus = "APPROVED"
                  /\ \A f \in EventIds : \A v \in Users :
                       <<f, v>> # <<e, u>> => registrations'[f][v] = registrations[f][v]]_vars

\* C5: register on an event that is not APPROVED answers InvalidState, on an
\* event outside the caller's college NotFound, and the request ends there
\* without writing a row.
RegisterRefusedUnlessOpen ==
  [][\A p \in Procs :
       Steps(p, "reg_find") =>
         LET e == req[p].event
             u == req[p].user
         IN /\ ~InCollege(e, u)
                 => (pc'[p] = "idle" /\ resp'[p] = "NOT_FOUND"
                     /\ registrations' = registrations)
            /\ (InCollege(e, u) /\ events[e].moderationStatus # "APPROVED")
                 => (pc'[p] = "idle" /\ resp'[p] = "INVALID_STATE"
                     /\ registrations' = registrations)]_vars

\* both refusals have been given, and no row exists
RegisterRefusedBoth ==
  \E p, q \in Procs :
    /\ Settled(p) /\ resp[p] = "INVALID_STATE"
    /\ Settled(q) /\ resp[q] = "NOT_FOUND"
    /\ \A e \in EventIds : events[e].exists /\ regCount(e) = 0

\* C6: unregister on an event of the caller's college is never refused,
\* answers success, leaves no row for (event, caller), touches no other row,
\* and changes nothing when the caller held no row.
UnregisterIdempotent ==
  [][\A p \in Procs :
       /\ Steps(p, "unreg_find") =>
            (InCollege(req[p].event, req[p].user) => pc'[p] = "unreg_delete")
       /\ Steps(p, "unreg_delete") =>
            LET e == req[p].event
                u == req[p].user
            IN /\ pc'[p] = "idle" /\ resp'[p] = "OK"
               /\ registrations'[e][u] = 0
               /\ registrations' = [registrations EXCEPT ![e][u] = 0]
               /\ registrations[e][u] = 0 => registrations' = registrations]_vars

\* two unregister calls have both answered success, at least one of them
\* for a caller who held no row
UnregisteredTwice ==
  \E p, q \in Procs :
    /\ p # q /\ Settled(p) /\ Settled(q)
    /\ resp[p] = "OK" /\ resp[q] = "OK"
    /\ \A e \in EventIds : regCount(e) = 0

(***************************************************************************)
(* Creation and moderation                                                 *)
(***************************************************************************)
StudentAuthored(e) == events[e].exists /\ events[e].authorRole = "STUDENT"

\* C7 (as claimed): every student-authored event has its ApprovalFlow once
\* the request that created it has returned.
StudentEventHasFlow ==
  \A e \in EventIds :
    (StudentAuthored(e) /\ ~\E p \in Procs : pc[p] = "create_flow" /\ req[p].event = e)
      => flows[e].exists

\* C7 (amended): an event created by a principal holding STUDENT starts
\* PENDING_REVIEW and the handler goes on to create its ApprovalFlow, which
\* exists afterwards unless that write failed; an event created by a
\* principal not holding STUDENT starts APPROVED and the handler returns
\* without creating a flow.  Only student-authored events ever have a flow.
CreateStartsModeration ==
  /\ [](\A e \in EventIds : flows[e].exists => StudentAuthored(e))
  /\ [][\A p \in Procs :
          /\ (Steps(p, "create_event") /\ events' # events) =>
               \E e \in EventIds :
                 /\ ~events[e].exists /\ events'[e].exists
                 /\ events' = [events EXCEPT ![e] = events'[e]]
                 /\ ~flows'[e].exists
                 /\ IF hasRole(req[p].user, "STUDENT")
                    THEN /\ events'[e].moderationStatus = "PENDING_REVIEW"
                         /\ pc'[p] = "create_flow" /\ req'[p].event = e
                    ELSE /\ events'[e].moderationStatus = "APPROVED"
                         /\ pc'[p] = "idle"
          /\ Steps(p, "create_flow") =>
               /\ flowStoreUp => flows'[req[p].event].exists
               /\ flows' = [flows EXCEPT ![req[p].event] = flows'[req[p].event]]]_vars

\* a student's create request has returned: the event is pending and has
\* its flow
StudentEventCreated ==
  \E e \in EventIds, p \in Procs :
    /\ StudentAuthored(e) /\ events[e].moderationStatus = "PENDING_REVIEW"
    /\ flows[e].exists
    /\ Settled(p) /\ resp[p] = "OK"

Decided(e) == flows[e].approvedAt # 0 \/ flows[e].rejectedAt # 0

\* C8 (as claimed): after any sequence of moderation actions at most one of
\* approvedAt and rejectedAt of a flow is set.
AtMostOneDecision ==
  \A e \in EventIds :
    flows[e].exists => ~(flows[e].approvedAt # 0 /\ flows[e].rejectedAt # 0)

\* C35 (as claimed): for every event that has a flow, after any sequence of
\* moderation operations on any route, APPROVED implies approvedAt is set,
\* REJECTED implies rejectedAt is set, and PENDING_REVIEW implies neither.
StatusAgreesWithFlow ==
  \A e \in EventIds :
    (events[e].exists /\ flows[e].exists /\ \A p \in Procs : pc[p] = "idle")
      => /\ events[e].moderationStatus = "APPROVED" => flows[e].approvedAt # 0
         /\ events[e].moderationStatus = "REJECTED" => flows[e].rejectedAt # 0
         /\ events[e].moderationStatus = "PENDING_REVIEW"
              => flows[e].approvedAt = 0 /\ flows[e].rejectedAt = 0

\* C9 (as claimed): once approvedAt or rejectedAt of a flow is set, no later
\* moderation action changes any field of the flow.
DecidedFlowIsFrozen ==
  [][\A e \in EventIds :
       (flows[e].exists /\ Decided(e)) => flows'[e] = flows[e]]_vars

\* C10 (as claimed): once the moderationStatus of an event is REJECTED, no
\* operation changes it to another status.
RejectedIsTerminal ==
  [][\A e \in EventIds :
       (events[e].exists /\ events[e].moderationStatus = "REJECTED")
         => events'[e].moderationStatus = "REJECTED"]_vars

\* the flow write of an APPROVE request finds the flow already approved
Reapproval(p) ==
  /\ Steps(p, "mod_flow") \/ Steps(p, "adm_flow")
  /\ req[p].action = "APPROVE"
  /\ flows[req[p].event].exists
  /\ flows[req[p].event].approvedAt # 0

\* C27 (as claimed): APPROVE on an event that is already approved changes
\* nothing of the flow but mentorAssigned; approvedAt keeps the value of the
\* first approval.
ReapprovalKeepsApprovedAt ==
  [][\A p \in Procs :
       Reapproval(p) =>
         LET e == req[p].event IN
           /\ flows'[e].approvedAt = flows[e].approvedAt
           /\ flows'[e] = [flows[e] EXCEPT !.mentorAssigned = flows'[e].mentorAssigned]]_vars

\* C28: the ASSIGN action changes nothing but assignedTo of the event's
\* flow: the event table and the registrations are unchanged, every other
\* flow field is unchanged, and the request reports success, also when the
\* event has no flow.
AssignChangesAssigneeOnly ==
  [][\A p \in Procs :
       Steps(p, "mod_flow") /\ req[p].action = "ASSIGN" =>
         LET e == req[p].event IN
           /\ events' = events /\ registrations' = registrations
           /\ flows' = [flows EXCEPT ![e].assignedTo = flows'[e].assignedTo]
           /\ ~flows[e].exists => flows' = flows
           /\ resp'[p] = "OK"]_vars

\* a pending student event whose flow was reassigned to f1, the request
\* answered with success
Reassigned ==
  \E p \in Procs :
    /\ Settled(p) /\ resp[p] = "OK"
    /\ events[1].moderationStatus = "PENDING_REVIEW"
    /\ flows[1].exists /\ flows[1].assignedTo = "f1"
    /\ ~Decided(1)

(***************************************************************************)
(* Authorization                                                           *)
(***************************************************************************)
Moderator(u) == hasRole(u, "DEPT_ADMIN") \/ hasRole(u, "HEAD_ADMIN")

\* slot p writes the event table for a moderation request that names e
ModerationWrite(p, e) ==
  \/ Steps(p, "mod_event") /\ req[p].event = e
  \/ Steps(p, "adm_event") /\ req[p].event = e
  \/ Steps(p, "bulk_update") /\ e \in req[p].eventIds

RoleAllows(op, u) ==
  CASE op = "moderate" -> Moderator(u)
    [] op \in {"adminModerate", "adminGet", "bulkModerate"} -> hasRole(u, "HEAD_ADMIN")
    [] op = "export" -> hasRole(u, "FACULTY")
    [] OTHER -> TRUE

ByIdLookups ==
  {"get_find", "upd_find", "del_find", "mod_find", "reg_find", "unreg_find",
   "export_find", "admget_find", "adm_find"}

\* C39 (as claimed): college-scoped isolation on the /v1/events routes: a
\* by-id request goes on only for an event of the caller's college, and
\* every stored event carries the non-empty collegeId of its author.
CollegeIsolation ==
  /\ [](\A e \in EventIds :
          events[e].exists
            => /\ events[e].collegeId \in Colleges
               /\ events[e].collegeId = UserCollege(events[e].authorId))
  /\ [][\A p \in Procs :
          ( /\ \E at \in ByIdLookups : Steps(p, at)
            /\ events[req[p].event].exists
            /\ events[req[p].event].collegeId # UserCollege(req[p].user) )
          => pc'[p] = "idle" /\ resp'[p] = "NOT_FOUND"]_vars

\* C14 (as claimed): a by-id operation on an event of another college than
\* the caller's answers NotFound, never Forbidden, on the /v1/events routes
\* and on the admin get, moderate and bulk-moderate routes (for a caller who
\* holds the role the route requires).
ForeignEventAnswersNotFound ==
  [][\A p \in Procs :
       LET u == req[p].user
           e == req[p].event
       IN /\ ( /\ \E at \in ByIdLookups : Steps(p, at)
               /\ RoleAllows(req[p].op, u)
               /\ e \in EventIds /\ events[e].exists
               /\ events[e].collegeId # UserCollege(u) )
             => resp'[p] = "NOT_FOUND"
          /\ ( /\ Steps(p, "bulk_find")
               /\ RoleAllows(req[p].op, u)
               /\ \A f \in EventIds :
                    events[f].exists => events[f].collegeId # UserCollege(u) )
             => resp'[p] # "FORBIDDEN"]_vars

\* the rule of the spec for update and delete
MayChange(u, e) ==
  \/ /\ "STUDENT" \in UserRoles(u)
     /\ events[e].authorId = u
     /\ events[e].moderationStatus = "PENDING_REVIEW"
  \/ UserRoles(u) \cap {"FACULTY", "DEPT_ADMIN", "HEAD_ADMIN"} # {}

KeptColumns ==
  {"exists", "collegeId", "authorId", "authorRole", "moderationStatus", "monitorId",
   "title"}

\* C37: an update changes only the content fields the request supplies:
\* moderationStatus, collegeId, authorId, authorRole, monitorId, the flows
\* and the registrations are unchanged, and an update that is answered
\* NotFound, Forbidden or with a validation error changes nothing.
UpdateChangesSuppliedOnly ==
  [][\A p \in Procs :
       LET e == req[p].event IN
       /\ (Steps(p, "upd_find") \/ Steps(p, "upd_write"))
            => /\ flows' = flows /\ registrations' = registrations
               /\ \A f \in EventIds :
                    \A k \in KeptColumns : events'[f][k] = events[f][k]
               /\ \A f \in EventIds \ {e} : events'[f] = events[f]
               /\ resp'[p] \in {"NOT_FOUND", "FORBIDDEN", "BAD_REQUEST"}
                    => events' = events
       /\ \A body \in UpdateBodies :
            UpdateWrite(p, body)
              => \A k \in BodyKeys \ body.given : events'[e][k] = events[e][k]]_vars

\* an update that supplied the mode alone was applied to a pending student
\* event: the mode is new, the location and the status are the old ones
ModeAloneUpdated ==
  \E p \in Procs :
    /\ resp[p] = "OK"
    /\ events[1].exists /\ events[1].mode = "ONLINE" /\ events[1].location = "hall"
    /\ events[1].meetingUrl = ""
    /\ events[1].authorId = "s1" /\ events[1].moderationStatus = "PENDING_REVIEW"
    /\ flows[1].exists

\* C34 (as claimed): no update or delete by a principal who holds only
\* STUDENT takes effect on an event whose status is already APPROVED or
\* REJECTED, however the request and an APPROVE or REJECT of the same event
\* interleave.
StudentChangesPendingOnly ==
  [][\A p \in Procs :
       ( /\ Steps(p, "upd_write") \/ Steps(p, "del_write")
         /\ UserRoles(req[p].user) = {"STUDENT"}
         /\ events'[req[p].event] # events[req[p].event] )
       => events[req[p].event].moderationStatus = "PENDING_REVIEW"]_vars

VisibilityIsExclusive ==
  \A e \in EventIds :
    events[e].exists =>
      \/ events[e].visibleToAllDepts /\ events[e].departments = {}
      \/ ~events[e].visibleToAllDepts /\ events[e].departments # {}

\* C22 (as claimed): every stored event has endAt >= startAt.
EndNotBeforeStart ==
  \A e \in EventIds : events[e].exists => events[e].endAt >= events[e].startAt

\* C23 (as claimed): every stored event has a location when its mode is
\* ONSITE or HYBRID and a meetingUrl when its mode is ONLINE or HYBRID.
ModeFieldsPresent ==
  \A e \in EventIds :
    events[e].exists =>
      /\ events[e].mode # "ONLINE" => events[e].location # ""
      /\ events[e].mode # "ONSITE" => events[e].meetingUrl # ""

\* C24: in every reachable state, also while deletes and registers of one
\* event interleave, every registration row belongs to an event that still
\* exists: a delete takes the event's registrations with it.
RegistrationsHaveEvent ==
  \A e \in EventIds, u \in Users :
    registrations[e][u] > 0 => events[e].exists

\* a registration was created and answered, and the event was then deleted
\* by another request
DeletedWithRegistrations ==
  /\ ~events[1].exists
  /\ \E p, q \in Procs :
       /\ p # q
       /\ Settled(p) /\ resp[p] = "OK"
       /\ Settled(q) /\ resp[q] = "CREATED"

(***************************************************************************)
(* Secondary writes                                                        *)
(***************************************************************************)
\* the flow write of request p cannot succeed: the store is down or the
\* event has no flow row
FlowWriteFails(p) ==
  ~(flowStoreUp /\ flows[req[p].event].exists)

\* C19: on /v1/events/:id/moderate and on /v1/admin/events/:id/moderate, when
\* the flow write fails or the flow does not exist after the event status
\* write of APPROVE or REJECT succeeded, the event keeps its new
\* moderationStatus and the request still reports success.
FlowFailureSwallowed ==
  [][\A p \in Procs :
       /\ Steps(p, "mod_flow") \/ Steps(p, "adm_flow")
       /\ req[p].action \in {"APPROVE", "REJECT"}
       /\ FlowWriteFails(p)
       => /\ events' = events
          /\ events[req[p].event].moderationStatus
               = (IF req[p].action = "APPROVE" THEN "APPROVED" ELSE "REJECTED")
          /\ \/ pc'[p] = "idle" /\ resp'[p] = "OK"
             \/ pc'[p] = "adm_audit"]_vars

\* C38 (as claimed): every administrative mutation of an event's moderation
\* state, on any route, appends an audit-log entry when the audit store is
\* available, and no operation removes an entry: a moderation request that
\* ends with success while the store is up has added an entry by its last
\* step.
ModerationIsAudited ==
  [][/\ \A p \in Procs :
          ( /\ Steps(p, "mod_flow") \/ Steps(p, "adm_audit") \/ Steps(p, "bulk_audit")
            /\ resp'[p] = "OK" /\ auditStoreUp )
          => auditLog' = auditLog + 1
     /\ auditLog' >= auditLog]_vars

CacheNeverFails ==
  [][\A p \in Procs :
       /\ Steps(p, "cache_get")
            => /\ returned'[p].kind = "value"
               /\ unavailable(cache) => returned'[p].value = Null /\ redis' = redis
       /\ Steps(p, "cache_set") \/ Steps(p, "cache_del")
            => /\ returned'[p].kind = "value"
               /\ unavailable(cache) => returned'[p].value = "false" /\ redis' = redis
       /\ Steps(p, "cache_inv")
            => /\ returned'[p].kind = "value"
               /\ unavailable(cache) => redis' = redis
       /\ Steps(p, "gos_get")
            => /\ returned'[p].kind # "thrown"
               /\ unavailable(cache) => pc'[p] = "gos_fetch"
       /\ Steps(p, "gos_fetch") => returned'[p].kind # "thrown"
       /\ Steps(p, "gos_set") => returned'[p] = Value(req[p].fresh)]_vars

\* connect() failed, so there is no client, and a getOrSet call has
\* returned the value of fetchFn while the server is still down
FetchedWithoutCache ==
  \E p \in Procs :
    /\ cache.connectionAttempted /\ ~cache.client /\ ~redis.disabled /\ ~redis.up
    /\ Settled(p) /\ returned[p] = Value("a")

\* C26: getUserScope either fails or returns a scope with a non-empty
\* collegeId and department; it fails when the profile service answers
\* non-OK or the profile lacks collegeId or department, and then stores
\* nothing; a successful resolution is cached until 5 minutes after the
\* call, and a cached scope is returned only while its expiry is in the
\* future.
ScopeResolvedOrFails ==
  [][\A p \in Procs :
       /\ Steps(p, "scope_get") /\ pc'[p] = "idle"
            => \/ returned'[p].kind = "thrown" /\ ~req[p].authorization
               \/ /\ returned'[p].kind = "scope"
                  /\ scopeCache[req[p].user].exists
                  /\ scopeCache[req[p].user].expiresAt > clock
                  /\ returned'[p].collegeId = scopeCache[req[p].user].collegeId
                  /\ returned'[p].department = scopeCache[req[p].user].department
                  /\ returned'[p].collegeId # "" /\ returned'[p].department # ""
       /\ Steps(p, "scope_fetch")
            => IF profile.status = "ok" /\ profile.collegeId # "" /\ profile.department # ""
               THEN /\ returned'[p].kind = "scope"
                    /\ returned'[p].collegeId = profile.collegeId
                    /\ returned'[p].department = profile.department
                    /\ scopeCache'[req[p].user].exists
                    /\ scopeCache'[req[p].user].expiresAt = req[p].calledAt + 300000
               ELSE returned'[p].kind = "thrown" /\ scopeCache' = scopeCache]_vars

\* the scope cached for f1 has just expired, and a resolution for s1 has
\* failed on a profile without department and left no entry
ExpiredAndFailed ==
  \E p \in Procs :
    /\ Settled(p) /\ returned[p].kind = "thrown"
    /\ profile.status = "ok" /\ profile.department = ""
    /\ scopeCache["f1"].exists /\ scopeCache["f1"].expiresAt = clock
    /\ ~scopeCache["s1"].exists

(***************************************************************************)
(* Eligibility                                                             *)
(***************************************************************************)
\* C18: for a caller holding STUDENT, when the eligibility provider cannot
\* be reached, answers non-OK, or the Authorization header is missing,
\* ensureStudentEligibility gives canCreate = false with a reason, and the
\* create request persists no event; for a caller not holding STUDENT it
\* gives canCreate = true without calling the provider.
EligibilityFailsClosed ==
  [][\A p \in Procs :
       Steps(p, "create_event") =>
         LET u == req[p].user
             checked == ensureStudentEligibility(req[p].tokenRoles, req[p].authorization, provider)
         IN /\ ( /\ "STUDENT" \in UserRoles(u)
                 /\ provider \in {"unreachable", "notOk"} \/ ~req[p].authorization )
               => /\ ~checked.canCreate /\ checked.missing # <<>>
                  /\ events' = events /\ flows' = flows
                  /\ resp'[p] \in {"FORBIDDEN", "NOT_FOUND"}
            /\ "STUDENT" \notin UserRoles(u)
               => checked.canCreate /\ ~checked.fetched]_vars

\* a student's create request was refused while the provider was
\* unreachable, and nothing was stored
StudentRefusedProviderDown ==
  \E p \in Procs :
    /\ resp[p] = "FORBIDDEN" /\ provider = "unreachable"
    /\ \A q \in Procs : pc[q] = "idle"
    /\ \A e \in EventIds : ~events[e].exists

\* C36 (as claimed): every event stored with authorRole STUDENT was created
\* only after the eligibility provider answered canCreate = true for the
\* caller, also when the roles of the token differ from the roles the
\* identity service returns.
StudentEventWasEligible ==
  [][\A p \in Procs : \A e \in EventIds :
       ( /\ Steps(p, "create_event")
         /\ ~events[e].exists /\ events'[e].exists
         /\ events'[e].authorRole = "STUDENT" )
       => /\ provider = "allow"
          /\ ensureStudentEligibility(req[p].tokenRoles, req[p].authorization, provider).fetched]_vars

(***************************************************************************)
(* Escalation                                                              *)
(***************************************************************************)
\* the user who holds HEAD_ADMIN in a college
HeadAdminOf(collegeId) ==
  IF \E u \in Users : "HEAD_ADMIN" \in UserRoles(u) /\ UserCollege(u) = collegeId
  THEN CHOOSE u \in Users : "HEAD_ADMIN" \in UserRoles(u) /\ UserCollege(u) = collegeId
  ELSE None

SweepEnds(p) == pc[p] \in {"esc_check", "esc_find", "esc_update"} /\ pc'[p] = "idle"

\* C16 (as claimed): a sweep over a pending flow whose delay has elapsed,
\* under a policy with autoEscalateToHead and no backup approvers, in a
\* college that has a HEAD_ADMIN, leaves the flow escalated and assigned to
\* that HEAD_ADMIN.
SweepEscalatesToHeadAdmin ==
  [][\A p \in Procs :
       LET e == req[p].event
           policy == policies[events[e].collegeId]
       IN ( /\ SweepEnds(p)
            /\ flowStoreUp
            /\ flows[e].exists /\ ~Decided(e)
            /\ policy.exists /\ policy.autoEscalateToHead
            /\ policy.backupApprovers = <<>>
            /\ now >= flows[e].submittedAt + policy.escalationDelayHours
            /\ policy.escalationDelayHours > 0
            /\ HeadAdminOf(events[e].collegeId) # None )
          => /\ flows'[e].isEscalated
             /\ flows'[e].assignedTo = HeadAdminOf(events[e].collegeId)]_vars

\* the hours after submission at which the flow of a college falls due, as
\* the policy table states them
DeadlineHours(collegeId) ==
  IF ~policies[collegeId].exists THEN 72
  ELSE IF policies[collegeId].escalationDelayHours > 0
  THEN policies[collegeId].escalationDelayHours
  ELSE 0

\* C29: a flow is never marked escalated before its deadline: a sweep goes
\* on to escalateEvent, and a flow carries isEscalated, only at or after
\* submittedAt plus the delay of the college's policy, for every positive
\* delay, and plus 72 hours when the college has no policy.
NotEscalatedBeforeDeadline ==
  /\ [](\A e \in EventIds :
          flows[e].isEscalated
            => flows[e].escalatedAt >=
                 flows[e].submittedAt + DeadlineHours(events[e].collegeId))
  /\ [][\A p \in Procs :
          Steps(p, "esc_check") /\ pc'[p] = "esc_find"
            => now >= flows[req[p].event].submittedAt
                        + DeadlineHours(events[req[p].event].collegeId)]_vars

\* a flow was escalated in the very hour its configured delay of 2 ran out
EscalatedAtDeadline ==
  \E e \in EventIds :
    /\ policies[events[e].collegeId].exists
    /\ policies[events[e].collegeId].escalationDelayHours = 2
    /\ flows[e].isEscalated
    /\ flows[e].escalatedAt = flows[e].submittedAt + 2

\* C30: when an escalation fires the target is the first backup approver
\* of the policy if it lists any, and the HEAD_ADMIN of the college only if
\* it lists none and autoEscalateToHead is set; a sweep that resolves no
\* target leaves the flow unchanged, not escalated, and ends without an
\* error.
EscalationTargetOrNoOp ==
  [][\A p \in Procs :
       LET e == req[p].event
           policy == policies[events[e].collegeId]
           backups == IF policy.exists THEN policy.backupApprovers ELSE <<>>
       IN /\ ( Steps(p, "esc_update") /\ flows' # flows )
               => /\ flows'[e].isEscalated
                  /\ flows'[e].escalatedTo = flows'[e].assignedTo
                  /\ backups # <<>> => flows'[e].escalatedTo = Head(backups)
                  /\ backups = <<>>
                       => /\ policy.autoEscalateToHead
                          /\ flows'[e].escalatedTo = HeadAdminOf(events[e].collegeId)
          /\ ( Steps(p, "esc_find") /\ flows[e].exists )
               => IF backups # <<>>
                  THEN pc'[p] = "esc_update" /\ req'[p].escalatedTo = Head(backups)
                  ELSE pc'[p] = "esc_update"
                         => /\ policy.exists /\ policy.autoEscalateToHead
                            /\ req'[p].escalatedTo = HeadAdminOf(events[e].collegeId)
          /\ ( Steps(p, "esc_find") /\ pc'[p] = "idle" )
               => /\ flows' = flows /\ events' = events
                  /\ ~flows[e].isEscalated => ~flows'[e].isEscalated
                  /\ resp'[p] = "DONE"]_vars

\* a flow was escalated to the first of two backup approvers
EscalatedToFirstBackup ==
  \E e \in EventIds :
    /\ policies[events[e].collegeId].exists
    /\ policies[events[e].collegeId].backupApprovers = <<"t1", "f1">>
    /\ flows[e].isEscalated
    /\ flows[e].escalatedTo = "t1" /\ flows[e].assignedTo = "t1"
    /\ \A p \in Procs : pc[p] = "idle"

\* C31 (as claimed): a flow that has approvedAt or rejectedAt set is never
\* escalated: no write sets isEscalated on a flow that is already decided,
\* however a sweep and an APPROVE or REJECT of the same event interleave.
DecidedNeverEscalated ==
  [][\A e \in EventIds :
       (flows[e].exists /\ Decided(e) /\ ~flows[e].isEscalated)
         => ~flows'[e].isEscalated]_vars

\* C32 (as claimed): no registration row is inserted for an event at a
\* moment when its moderationStatus is not APPROVED, however a register
\* request and a REJECT of the same event interleave.
InsertedOnlyWhileApproved ==
  [][\A e \in EventIds : \A u \in Users :
       registrations'[e][u] > registrations[e][u]
         => events[e].exists /\ events[e].moderationStatus = "APPROVED"]_vars

\* C33 (as claimed): the number of registrations of an event never exceeds
\* its current capacity, also when update requests that set or lower the
\* capacity run before or between the register requests.
CapacityHoldsAcrossUpdates ==
  \A e \in EventIds :
    (events[e].exists /\ events[e].capacity # NoCapacity)
      => ~(regCount(e) > events[e].capacity)

\* C17 (as claimed): of two sweeps that run concurrently on an overdue flow
\* at most one escalates it: once the flow is escalated, escalatedAt and
\* escalatedTo are not written again.
EscalatedOnce ==
  [][\A e \in EventIds :
       flows[e].isEscalated
         => /\ flows'[e].escalatedAt = flows[e].escalatedAt
            /\ flows'[e].escalatedTo = flows[e].escalatedTo]_vars

(***************************************************************************)
(* Visibility                                                              *)
(***************************************************************************)
\* the rule of the spec for what a student may see
VisibleToStudent(e, u) ==
  /\ events[e].exists
  /\ events[e].collegeId = UserCollege(u)
  /\ events[e].moderationStatus = "APPROVED"
  /\ events[e].visibleToAllDepts \/ UserDepartment(u) \in events[e].departments

\* C12 (as claimed): every event the list operation returns to a student,
\* whatever the query filters, is of the student's college, APPROVED, and
\* visible to all departments or to the student's department.
StudentListIsVisible ==
  \A p \in Procs :
    (pc[p] = "list_regs" /\ hasRole(req[p].user, "STUDENT"))
      => \A e \in req[p].eventIds : VisibleToStudent(e, req[p].user)

\* C13: GET /v1/events/:id by a student answers with the event exactly when
\* the event is of the student's college, APPROVED and visible to all
\* departments or to the student's department, and with NotFound otherwise.
StudentGetIffVisible ==
  [][\A p \in Procs :
       (Steps(p, "get_find") /\ hasRole(req[p].user, "STUDENT"))
         => /\ resp'[p] \in {"OK", "NOT_FOUND"}
            /\ resp'[p] = "OK" <=> VisibleToStudent(req[p].event, req[p].user)]_vars

\* s1 (department CS) asks for an approved event of their college that is
\* restricted to department EE
RestrictedEventAsked ==
  \E p \in Procs :
    /\ pc[p] = "get_find" /\ req[p].user = "s1"
    /\ events[req[p].event].exists
    /\ events[req[p].event].collegeId = "c1"
    /\ events[req[p].event].moderationStatus = "APPROVED"
    /\ events[req[p].event].departments = {"EE"}

====
